---- MODULE Spec2Model ----
(***************************************************************************)
(* Verification model of goelectrodb: the composite-key builder            *)
(* (electrodb/internal/keys.go), the update-expression assembler           *)
(* (electrodb/params.go), the expression builder and its merge, the        *)
(* query chain (electrodb/query.go) and the pagination cursor codec        *)
(* (electrodb/cursor.go).                                                  *)
(*                                                                         *)
(* Text is modelled as a sequence of one-character strings so that case    *)
(* conversion, concatenation and suffix tests are computed, not assumed.   *)
(***************************************************************************)
EXTENDS Integers, Sequences, FiniteSets, TLC

VARIABLES
    kOptions,    \* MakeKey: the KeyOptions argument
    kFacets,     \* MakeKey: the ordered facet names
    kSupplied,   \* MakeKey: the supplied mapping  name -> value
    kIsSortKey,  \* buildKeyWithType: the isSortKey argument
    kResult,     \* the KeyResult returned by the last call
    kpc,         \* "ready" | "made" (MakeKey called) | "built" (buildKey called)
    uIn,         \* BuildUpdateItemParams: keys, the update buckets, the schema's timestamps
    uOut,        \* BuildUpdateItemParams: the returned params or error
    upc,         \* "idle" | "ready" | "done"
    qcFilter,    \* QueryChain.filterBuilder: NilBuilder or an ExpressionBuilder
    qcLocal,     \* the locals of the last Where/Filter call: fb and the tables merged
    qcCalls,     \* the number of Where/Filter calls made on the chain
    txOut,       \* the types.Update built by TransactUpdateItem.BuildTransactItem
    cResume,     \* encodeCursor: the LastEvaluatedKey argument
    cCursor,     \* the cursor string: returned by encodeCursor or given to decodeCursor
    cDecoded,    \* decodeCursor: the returned ExclusiveStartKey and error
    cpc,         \* "start" | "encoded" | "decoded" | "external"
    pIn,         \* put: the schema, the caller's item and the options
    pOut,        \* put: the returned params or error, and the caller's item afterwards
    ppc,         \* "ready" | "built" (BuildPutItemParams) | "created" (Entity.Create)
    yIn,         \* get/query: the schema, the index name, the facets, the sort-key condition
    yOut,        \* get/query: the returned params or error
    ypc,         \* "ready" | "get" | "query"
    rIn,         \* read paths: the stored item and the execution options
    rOut,        \* read paths: the item handed to the caller
    rpc,         \* "ready" | the read path taken
    eIn,         \* NewEntity: the schema argument
    eOut,        \* NewEntity: the returned error, and the primary index a call then locates
    epc,         \* "ready" | "constructed" | "located"
    bIn,         \* batch: the operation and the keys or the puts and deletes requested
    bOut,        \* batch: the requests sent to the store so far, the loop index, the error
    bpc,         \* "ready" | "looping" | "done"
    gIn,         \* pagination: the query chain and the PagesOptions
    gOut,        \* pagination: cursor, pageCount, done, err, the queries issued, the pages
    gpc,         \* "ready" | "loop" | "returned" (Pages) | "iterating" (PagesIterator)
    jEntities,   \* Service.entities: entity name -> the entity joined under it
    jCollections,\* Service.collection: collection name -> index and entity names
    jLast,       \* the argument and the error of the last Service.Join call
    jConfigs,    \* the config (client, table) of every entity
    nIn,         \* concurrent calls: the entity's schema and each caller's operation
    nMem,        \* concurrent calls: the maps the callers share, as stored now
    nProc,       \* concurrent calls: each call's position, local maps and result
    xEb,         \* one ExpressionBuilder under addName / addValue calls
    xReturned    \* the placeholders that builder has returned so far

keyVars == <<kOptions, kFacets, kSupplied, kIsSortKey, kResult, kpc>>

updVars == <<uIn, uOut, upc>>

exprVars == <<qcFilter, qcLocal, qcCalls, txOut>>

curVars == <<cResume, cCursor, cDecoded, cpc>>

putVars == <<pIn, pOut, ppc>>

qryVars == <<yIn, yOut, ypc>>

readVars == <<rIn, rOut, rpc>>

entVars == <<eIn, eOut, epc>>

batVars == <<bIn, bOut, bpc>>

pageVars == <<gIn, gOut, gpc>>

svcVars == <<jEntities, jCollections, jLast, jConfigs>>

conVars == <<nIn, nMem, nProc>>

bldVars == <<xEb, xReturned>>

\* the subsystems that take no part in the key, update, expression, cursor,
\* put, query, read and entity specifications
lateVars == <<batVars, pageVars, svcVars, conVars, bldVars>>

\* the eight subsystems above them
coreVars == <<keyVars, updVars, exprVars, curVars, putVars, qryVars, readVars, entVars>>

vars == <<coreVars, lateVars>>

\* the value a subsystem's variables hold under a specification of another one
Idle == "idle"

KeyIdle ==
    /\ kOptions = Idle /\ kFacets = Idle /\ kSupplied = Idle
    /\ kIsSortKey = Idle /\ kResult = Idle /\ kpc = Idle

UpdIdle == uIn = Idle /\ uOut = Idle /\ upc = Idle

ExprIdle == qcFilter = Idle /\ qcLocal = Idle /\ qcCalls = Idle /\ txOut = Idle

CurIdle == cResume = Idle /\ cCursor = Idle /\ cDecoded = Idle /\ cpc = Idle

PutIdle == pIn = Idle /\ pOut = Idle /\ ppc = Idle

QryIdle == yIn = Idle /\ yOut = Idle /\ ypc = Idle

ReadIdle == rIn = Idle /\ rOut = Idle /\ rpc = Idle

EntIdle == eIn = Idle /\ eOut = Idle /\ epc = Idle

BatIdle == bIn = Idle /\ bOut = Idle /\ bpc = Idle

PageIdle == gIn = Idle /\ gOut = Idle /\ gpc = Idle

SvcIdle == jEntities = Idle /\ jCollections = Idle /\ jLast = Idle /\ jConfigs = Idle

ConIdle == nIn = Idle /\ nMem = Idle /\ nProc = Idle

BldIdle == xEb = Idle /\ xReturned = Idle

LateIdle == BatIdle /\ PageIdle /\ SvcIdle /\ ConIdle /\ BldIdle

CoreIdle ==
    /\ KeyIdle
    /\ UpdIdle
    /\ ExprIdle
    /\ CurIdle
    /\ PutIdle
    /\ QryIdle
    /\ ReadIdle
    /\ EntIdle

----------------------------------------------------------------------------
(* Text helpers                                                            *)

LowerLetters ==
    <<"a","b","c","d","e","f","g","h","i","j","k","l","m",
      "n","o","p","q","r","s","t","u","v","w","x","y","z">>

UpperLetters ==
    <<"A","B","C","D","E","F","G","H","I","J","K","L","M",
      "N","O","P","Q","R","S","T","U","V","W","X","Y","Z">>

\* strings.ToLower on one character
ToLowerCh(c) ==
    IF \E i \in 1..26 : UpperLetters[i] = c
    THEN LowerLetters[CHOOSE i \in 1..26 : UpperLetters[i] = c]
    ELSE c

\* strings.ToUpper on one character
ToUpperCh(c) ==
    IF \E i \in 1..26 : LowerLetters[i] = c
    THEN UpperLetters[CHOOSE i \in 1..26 : LowerLetters[i] = c]
    ELSE c

ToLower(s) == [i \in 1..Len(s) |-> ToLowerCh(s[i])]

ToUpper(s) == [i \in 1..Len(s) |-> ToUpperCh(s[i])]

Digits == <<"0","1","2","3","4","5","6","7","8","9">>

RECURSIVE Itoa(_)
\* fmt.Sprintf("%d", n) for n >= 0
Itoa(n) == IF n < 10 THEN <<Digits[n + 1]>>
           ELSE Itoa(n \div 10) \o <<Digits[(n % 10) + 1]>>

HasSuffix(s, suf) ==
    /\ Len(s) >= Len(suf)
    /\ SubSeq(s, Len(s) - Len(suf) + 1, Len(s)) = suf

HasPrefix(s, pre) ==
    /\ Len(s) >= Len(pre)
    /\ SubSeq(s, 1, Len(pre)) = pre

\* s contains sub as a contiguous run
ContainsSeq(s, sub) ==
    \E i \in 0..(Len(s) - Len(sub)) : SubSeq(s, i + 1, i + Len(sub)) = sub

----------------------------------------------------------------------------
(* Go values held in map[string]interface{}                                *)

StrVal(s)  == [t |-> "string", s |-> s,    b |-> FALSE, n |-> 0]
BoolVal(b) == [t |-> "bool",   s |-> <<>>, b |-> b,     n |-> 0]
IntVal(n)  == [t |-> "int",    s |-> <<>>, b |-> FALSE, n |-> n]

TrueText  == <<"t","r","u","e">>
FalseText == <<"f","a","l","s","e">>

\* fmt.Sprintf("%v", value)
SprintV(v) ==
    CASE v.t = "string" -> v.s
      [] v.t = "int"    -> Itoa(v.n)
      [] v.t = "bool"   -> IF v.b THEN TrueText ELSE FalseText

----------------------------------------------------------------------------
(* electrodb/internal/keys.go                                              *)

\* BuildLabels: Name is the facet, Label its lower-cased rendering
BuildLabels(facets) ==
    [i \in 1..Len(facets) |-> [Name |-> facets[i], Label |-> ToLower(facets[i])]]

\* the boolean branch of MakeKey's value formatting, as a plausible slip
FormatBoolTitle(b) == IF b THEN <<"T","r","u","e">> ELSE <<"F","a","l","s","e">>

\* MakeKey's value formatting: the literal text for a boolean
FormatBool(b) == IF b THEN TrueText ELSE FalseText

\* MakeKey lines 181-194: booleans literal, everything else lower-cased %v
FormatValue(v) ==
    IF v.t = "bool" THEN FormatBool(v.b) ELSE ToLower(SprintV(v))

\* the label segment: raw for a custom format, "#<label>_" otherwise
LabelSegment(options, label) ==
    IF options.IsCustom THEN label.Label ELSE <<"#">> \o label.Label \o <<"_">>

\* formatKeyCasing
formatKeyCasing(key, casing) ==
    LET c == ToLower(casing) IN
    CASE c = <<"u","p","p","e","r">> -> ToUpper(key)
      [] c = <<"l","o","w","e","r">> -> ToLower(key)
      [] OTHER -> key

RECURSIVE MakeKeyLoopSkip(_, _, _, _, _, _)
\* the loop with "continue" in place of the second "break": a gap is skipped
MakeKeyLoopSkip(options, labels, supplied, i, key, foundCount) ==
    IF i > Len(labels) THEN [key |-> key, foundCount |-> foundCount]
    ELSE LET label  == labels[i]
             exists == label.Name \in DOMAIN supplied
         IN IF ~exists /\ options.ExcludeLabelTail
            THEN [key |-> key, foundCount |-> foundCount]
            ELSE IF ~exists
                 THEN MakeKeyLoopSkip(options, labels, supplied, i + 1,
                                      key, foundCount)
                 ELSE MakeKeyLoopSkip(options, labels, supplied, i + 1,
                          key \o LabelSegment(options, label)
                              \o FormatValue(supplied[label.Name]),
                          foundCount + 1)

RECURSIVE MakeKeyLoop(_, _, _, _, _, _)
\* the for loop of MakeKey from index i on, with both break statements
MakeKeyLoop(options, labels, supplied, i, key, foundCount) ==
    IF i > Len(labels) THEN [key |-> key, foundCount |-> foundCount]
    ELSE LET label  == labels[i]
             exists == label.Name \in DOMAIN supplied
         IN IF ~exists /\ options.ExcludeLabelTail
            THEN [key |-> key, foundCount |-> foundCount]
            ELSE LET withLabel == key \o LabelSegment(options, label)
                 IN IF ~exists
                    THEN [key |-> withLabel, foundCount |-> foundCount]
                    ELSE MakeKeyLoop(options, labels, supplied, i + 1,
                             withLabel \o FormatValue(supplied[label.Name]),
                             foundCount + 1)

\* fulfilled as "some facet was found": a plausible slip
FulfilledAny(foundCount, total) == foundCount > 0 \/ total = 0

\* fulfilled := foundCount == len(labels)
Fulfilled(foundCount, total) == foundCount = total

\* MakeKey(options, facets, supplied, labels)
MakeKey(options, facets, supplied, labels) ==
    LET r         == MakeKeyLoop(options, labels, supplied, 1, options.Prefix, 0)
        fulfilled == Fulfilled(r.foundCount, Len(labels))
        k1        == IF fulfilled /\ options.HasPostfix /\ ~options.ExcludePostfix
                     THEN r.key \o options.Postfix
                     ELSE r.key
        k2        == IF options.HasCasing
                     THEN formatKeyCasing(k1, options.Casing)
                     ELSE k1
    IN [Key |-> k2, Fulfilled |-> fulfilled]

\* BuildPartitionKeyPrefix: "$" + lower(service)
BuildPartitionKeyPrefix(service) == <<"$">> \o ToLower(service)

\* BuildSortKeyPrefix: "$" + lower(entity) [+ "_" + version]
BuildSortKeyPrefix(entity, version) ==
    IF version # <<>>
    THEN <<"$">> \o ToLower(entity) \o <<"_">> \o version
    ELSE <<"$">> \o ToLower(entity)

----------------------------------------------------------------------------
(* electrodb/params.go: key helpers of the ParamsBuilder                   *)

\* the schema's naming fields, as in the tests: Service "TestService" etc.
SchemaService == <<"S","v","c">>
SchemaEntity  == <<"E","n","t">>
SchemaVersion == <<"1">>

\* buildKeyWithType(facetDef, supplied, isSortKey)
buildKeyWithType(facetDef, supplied, isSortKey) ==
    LET prefix  == IF isSortKey
                   THEN BuildSortKeyPrefix(SchemaEntity, SchemaVersion)
                   ELSE BuildPartitionKeyPrefix(SchemaService)
        labels  == BuildLabels(facetDef.Facets)
        options == [Prefix           |-> prefix,
                    IsCustom         |-> FALSE,
                    ExcludeLabelTail |-> FALSE,
                    HasCasing        |-> facetDef.HasCasing,
                    Casing           |-> facetDef.Casing,
                    HasPostfix       |-> FALSE,
                    Postfix          |-> <<>>,
                    ExcludePostfix   |-> FALSE]
    IN MakeKey(options, facetDef.Facets, supplied, labels)

\* buildKey(facetDef, supplied)
buildKey(facetDef, supplied) == buildKeyWithType(facetDef, supplied, FALSE)

----------------------------------------------------------------------------
(* Inputs of the key builder                                               *)

MaxFacets == 3

\* attribute names that may be facets (mixed case, as "appId", "isActive")
FacetNames == { <<"i","D">>, <<"m">>, <<"o","K">> }

\* values a caller may supply for a facet
FacetValues == { StrVal(<<"A","b">>), BoolVal(TRUE), BoolVal(FALSE), IntVal(12) }

\* ordered facet lists without repetition, at most MaxFacets long
FacetLists ==
    { f \in UNION { [1..n -> FacetNames] : n \in 0..MaxFacets } :
        \A i, j \in 1..Len(f) : i # j => f[i] # f[j] }

SuppliedMaps == UNION { [d -> FacetValues] : d \in SUBSET FacetNames }

CasingChoices ==
    { [has |-> FALSE, v |-> <<>>],
      [has |-> TRUE,  v |-> <<"u","p","p","e","r">>],
      [has |-> TRUE,  v |-> <<"L","o","w","e","r">>],
      [has |-> TRUE,  v |-> <<"n","o","n","e">>] }

\* no postfix; a postfix; a postfix suppressed by ExcludePostfix
PostfixChoices ==
    { [has |-> FALSE, v |-> <<>>,        ex |-> FALSE],
      [has |-> TRUE,  v |-> <<"#","p">>, ex |-> FALSE],
      [has |-> TRUE,  v |-> <<"#","p">>, ex |-> TRUE] }

KeyOptionsSet ==
    { [Prefix           |-> <<"$","s","#","e">>,
       IsCustom         |-> ic,
       ExcludeLabelTail |-> elt,
       HasCasing        |-> c.has,
       Casing           |-> c.v,
       HasPostfix       |-> p.has,
       Postfix          |-> p.v,
       ExcludePostfix   |-> p.ex] :
        ic \in BOOLEAN, elt \in BOOLEAN,
        c \in CasingChoices, p \in PostfixChoices }

NoKeyResult == [Key |-> <<>>, Fulfilled |-> FALSE]

KeyInit ==
    /\ kOptions \in KeyOptionsSet
    /\ kFacets \in FacetLists
    /\ kSupplied \in SuppliedMaps
    /\ kIsSortKey = FALSE
    /\ kResult = NoKeyResult
    /\ kpc = "ready"
    /\ UpdIdle
    /\ ExprIdle
    /\ CurIdle
    /\ PutIdle
    /\ QryIdle
    /\ ReadIdle
    /\ EntIdle
    /\ LateIdle

\* a direct call of internal.MakeKey with labels from BuildLabels
CallMakeKey ==
    /\ kpc = "ready"
    /\ kResult' = MakeKey(kOptions, kFacets, kSupplied, BuildLabels(kFacets))
    /\ kpc' = "made"
    /\ UNCHANGED <<kOptions, kFacets, kSupplied, kIsSortKey>>
    /\ UNCHANGED <<updVars, exprVars, curVars, putVars, qryVars, readVars, entVars, lateVars>>

\* a call through the params builder; the facet definition carries the casing
CallBuildKey ==
    /\ kpc = "ready"
    /\ \E isSortKey \in BOOLEAN :
        /\ kIsSortKey' = isSortKey
        /\ kResult' = buildKeyWithType([Facets    |-> kFacets,
                                        HasCasing |-> kOptions.HasCasing,
                                        Casing    |-> kOptions.Casing],
                                       kSupplied, isSortKey)
    /\ kpc' = "built"
    /\ UNCHANGED <<kOptions, kFacets, kSupplied>>
    /\ UNCHANGED <<updVars, exprVars, curVars, putVars, qryVars, readVars, entVars, lateVars>>

KeyNext == CallMakeKey \/ CallBuildKey

SpecKey == KeyInit /\ [][KeyNext]_vars

----------------------------------------------------------------------------
(* Properties of the key builder                                           *)

\* the options in force for the call that produced kResult
KeyCustom      == kpc = "made" /\ kOptions.IsCustom
KeyExcludeTail == kpc = "made" /\ kOptions.ExcludeLabelTail
KeyPostfix     == IF kpc = "made" /\ kOptions.HasPostfix /\ ~kOptions.ExcludePostfix
                  THEN kOptions.Postfix ELSE <<>>
KeyPrefix      == IF kpc = "made" THEN kOptions.Prefix
                  ELSE IF kIsSortKey THEN <<"$","e","n","t","_","1">>
                  ELSE <<"$","s","v","c">>
KeyUpper       == kOptions.HasCasing /\ ToLower(kOptions.Casing) = <<"u","p","p","e","r">>
KeyLower       == kOptions.HasCasing /\ ToLower(kOptions.Casing) = <<"l","o","w","e","r">>

\* the casing overlay applied to an expected key text
Overlay(k) == IF KeyUpper THEN ToUpper(k) ELSE IF KeyLower THEN ToLower(k) ELSE k

\* the value text the key format prescribes: lower-cased, booleans literal
ValueText(v) ==
    CASE v.t = "bool"   -> IF v.b THEN <<"t","r","u","e">> ELSE <<"f","a","l","s","e">>
      [] v.t = "string" -> ToLower(v.s)
      [] v.t = "int"    -> Itoa(v.n)

\* the label segment the key format prescribes for facet i
LabelText(i) ==
    IF KeyCustom THEN ToLower(kFacets[i])
    ELSE <<"#">> \o ToLower(kFacets[i]) \o <<"_">>

RECURSIVE Segments(_)
\* "#<label>_<value>" for facets 1..m, all of them supplied
Segments(m) ==
    IF m = 0 THEN <<>>
    ELSE Segments(m - 1) \o LabelText(m) \o ValueText(kSupplied[kFacets[m]])

KeyCalled == kpc \in {"made", "built"}

AllSupplied == \A i \in 1..Len(kFacets) : kFacets[i] \in DOMAIN kSupplied

\* exactly the facets 1..m are supplied and m < Len(kFacets)
LacksTailFrom(m) ==
    /\ m < Len(kFacets)
    /\ \A i \in 1..Len(kFacets) : (kFacets[i] \in DOMAIN kSupplied) <=> (i <= m)

\* C4 as stated: through buildKey, a mapping lacking exactly the last N >= 1
\* facets gives fulfilled = false and a key that ends right after the last
\* supplied value, with no trailing label.
C4_TruncatedAfterValue ==
    \A m \in 0..MaxFacets :
        (kpc = "built" /\ LacksTailFrom(m)) =>
            /\ ~kResult.Fulfilled
            /\ kResult.Key = Overlay(KeyPrefix \o Segments(m))

\* C4 amended: lacking exactly the last N >= 1 facets gives fulfilled = false;
\* the key ends right after the last supplied value only when ExcludeLabelTail
\* is set, and otherwise (always so through buildKey) it ends with the label
\* segment of the first missing facet and nothing for the later ones.
C4_TruncatedAtFirstGap ==
    \A m \in 0..MaxFacets :
        (KeyCalled /\ LacksTailFrom(m)) =>
            /\ ~kResult.Fulfilled
            /\ kResult.Key =
                 Overlay(KeyPrefix \o Segments(m) \o
                         (IF KeyExcludeTail THEN <<>> ELSE LabelText(m + 1)))

\* a buildKey call on two supplied facets out of three
C4_Witness ==
    /\ kpc = "built"
    /\ LacksTailFrom(2)
    /\ HasSuffix(kResult.Key, <<"_">>)

\* C5: fulfilled is true exactly when every facet of the list has a supplied
\* value, and then the key is the prefix followed by each facet's label
\* segment and value in declared order ("#<label>_<value>" in the canonical
\* format), then the postfix when configured and not suppressed.
C5_FulfilledIffAllSupplied ==
    KeyCalled =>
        /\ kResult.Fulfilled <=> AllSupplied
        /\ kResult.Fulfilled =>
             kResult.Key = Overlay(KeyPrefix \o Segments(Len(kFacets)) \o KeyPostfix)

\* a fulfilled three-facet key in the canonical format with a postfix
C5_Witness ==
    /\ kpc = "made"
    /\ Len(kFacets) = 3
    /\ AllSupplied
    /\ kResult.Fulfilled
    /\ ~kOptions.IsCustom
    /\ kOptions.HasPostfix /\ ~kOptions.ExcludePostfix
    /\ HasSuffix(kResult.Key, Overlay(kOptions.Postfix))

\* the supplied mapping without any facet after position k
WithoutLater(k) ==
    [n \in DOMAIN kSupplied \ { kFacets[j] : j \in (k + 1)..Len(kFacets) }
        |-> kSupplied[n]]

\* the key the call in force returns for another supplied mapping
KeyFor(supplied) ==
    IF kpc = "made"
    THEN MakeKey(kOptions, kFacets, supplied, BuildLabels(kFacets))
    ELSE buildKeyWithType([Facets    |-> kFacets,
                           HasCasing |-> kOptions.HasCasing,
                           Casing    |-> kOptions.Casing], supplied, kIsSortKey)

\* C6: facets are not sparse: when facet k has no value, the key and the
\* fulfilled flag are those of the mapping with every later facet removed.
C6_GapHidesLaterFacets ==
    \A k \in 1..Len(kFacets) :
        (KeyCalled /\ kFacets[k] \notin DOMAIN kSupplied) =>
            kResult = KeyFor(WithoutLater(k))

\* facet 2 is missing while facets 1 and 3 are supplied
C6_Witness ==
    /\ KeyCalled
    /\ Len(kFacets) = 3
    /\ kFacets[1] \in DOMAIN kSupplied
    /\ kFacets[2] \notin DOMAIN kSupplied
    /\ kFacets[3] \in DOMAIN kSupplied

\* facet i is rendered: it and every facet before it has a value
Rendered(i) == \A j \in 1..i : kFacets[j] \in DOMAIN kSupplied

\* the text of the key at the place where facet i's value is rendered
ValueSlot(i) ==
    LET start == Len(KeyPrefix \o Segments(i - 1) \o LabelText(i))
        width == Len(ValueText(kSupplied[kFacets[i]]))
    IN SubSeq(kResult.Key, start + 1, start + width)

\* C7 as stated: under every key option, a boolean facet value is rendered
\* as the literal text true or false.
C7_BoolLiteralAlways ==
    \A i \in 1..Len(kFacets) :
        (KeyCalled /\ Rendered(i) /\ kSupplied[kFacets[i]].t = "bool") =>
            ValueSlot(i) = (IF kSupplied[kFacets[i]].b
                            THEN <<"t","r","u","e">> ELSE <<"f","a","l","s","e">>)

\* C7 amended: a boolean facet value is rendered as the literal text true or
\* false unless the configured casing is "upper", where the final pass
\* upper-cases the whole key and the value reads TRUE or FALSE.
C7_BoolLiteralUnlessUpper ==
    \A i \in 1..Len(kFacets) :
        (KeyCalled /\ Rendered(i) /\ kSupplied[kFacets[i]].t = "bool") =>
            LET lit == IF kSupplied[kFacets[i]].b
                       THEN <<"t","r","u","e">> ELSE <<"f","a","l","s","e">>
            IN ValueSlot(i) = (IF KeyUpper THEN ToUpper(lit) ELSE lit)

\* a key without casing that renders the boolean true as its second facet
C7_Witness ==
    /\ kpc = "made"
    /\ ~kOptions.HasCasing
    /\ Len(kFacets) >= 2
    /\ Rendered(2)
    /\ kSupplied[kFacets[2]] = BoolVal(TRUE)
    /\ ValueSlot(2) = <<"t","r","u","e">>

----------------------------------------------------------------------------
(* electrodb/params.go: BuildGetItemParams and BuildUpdateItemParams       *)

\* the primary index of the modelled schema: PK on facet "iD", no sort key
\* (the schema of the update tests: PK: FacetDefinition{Field: "pk", ...})
PrimaryIndex ==
    [PK    |-> [Field |-> "pk", Facets |-> << <<"i","D">> >>,
                HasCasing |-> FALSE, Casing |-> <<>>],
     HasSK |-> FALSE,
     SK    |-> [Field |-> "sk", Facets |-> <<>>,
                HasCasing |-> FALSE, Casing |-> <<>>]]

\* the sort key attached whether fulfilled or not: a plausible slip
GetItemParamsAnySortKey(primaryIndex, keys) ==
    LET pkKey == buildKey(primaryIndex.PK, keys)
        skKey == buildKeyWithType(primaryIndex.SK, keys, TRUE)
    IN IF ~pkKey.Fulfilled
       THEN [err |-> "InvalidKeys", Key |-> <<>>]
       ELSE IF primaryIndex.HasSK
            THEN [err |-> "",
                  Key |-> (primaryIndex.PK.Field :> pkKey.Key)
                          @@ (primaryIndex.SK.Field :> skKey.Key)]
            ELSE [err |-> "", Key |-> (primaryIndex.PK.Field :> pkKey.Key)]

\* BuildGetItemParams(keys, nil) once the primary index is found: the key map,
\* or InvalidKeys
GetItemParams(primaryIndex, keys) ==
    LET pkKey == buildKey(primaryIndex.PK, keys)
        skKey == buildKeyWithType(primaryIndex.SK, keys, TRUE)
    IN IF ~pkKey.Fulfilled
       THEN [err |-> "InvalidKeys", Key |-> <<>>]
       ELSE IF primaryIndex.HasSK
            THEN IF ~skKey.Fulfilled
                 THEN [err |-> "InvalidKeys", Key |-> <<>>]
                 ELSE [err |-> "",
                       Key |-> (primaryIndex.PK.Field :> pkKey.Key)
                               @@ (primaryIndex.SK.Field :> skKey.Key)]
            ELSE [err |-> "", Key |-> (primaryIndex.PK.Field :> pkKey.Key)]

\* BuildGetItemParams(keys, nil) on the schema of the update tests
BuildGetItemParams(keys) == GetItemParams(PrimaryIndex, keys)

\* values of the update buckets: an ordinary value, a value whose
\* attributevalue.Marshal fails, an []int of list indices, or another type
PlainVal     == [kind |-> "val",   idx |-> <<>>]
BadVal       == [kind |-> "bad",   idx |-> <<>>]
IntsVal(idx) == [kind |-> "ints",  idx |-> idx]
OtherVal     == [kind |-> "other", idx |-> <<>>]

\* the attribute name of Timestamps.UpdatedAt when timestamps are configured
UpdatedAtName == "updatedAt"

\* ApplyUpdateTimestamps(setOps, schema)
ApplyUpdateTimestamps(setOps, timestamps) ==
    IF ~timestamps THEN setOps
    ELSE (UpdatedAtName :> PlainVal) @@ setOps

\* ValidateUpdateOperations: the read-only check over SET, ADD, DELETE, REMOVE
ValidateUpdateOperations(setOps, addOps, delOps, remOps, readOnly) ==
    IF \/ \E n \in DOMAIN setOps : n \in readOnly
       \/ \E n \in DOMAIN addOps : n \in readOnly
       \/ \E n \in DOMAIN delOps : n \in readOnly
       \/ \E i \in 1..Len(remOps) : remOps[i] \in readOnly
    THEN "ReadOnlyViolation"
    ELSE ""

\* a value outside the attribute's EnumValues, which its Validate also rejects
InvalidVal == [kind |-> "invalid", idx |-> <<>>]

\* the hooks of the attributes updated: "a" declares an enum; "b" a validator
\* and a normalising Set function; "c" (and updatedAt) none
UpdateCatalog ==
    [a |-> [Enum |-> TRUE,  Validate |-> FALSE, Set |-> FALSE],
     b |-> [Enum |-> FALSE, Validate |-> TRUE,  Set |-> TRUE],
     c |-> [Enum |-> FALSE, Validate |-> FALSE, Set |-> FALSE]]

\* the Set function of "b": it normalises a value into an accepted one
SetHook(value) == IF value.kind = "invalid" THEN PlainVal ELSE value

\* validateEnum / attr.Validate on a value of the update
Violates(value) == value.kind = "invalid"

\* the value ApplySetTransformations stores for one SET operation: the Set
\* function first, then the enum and the validator, whose errors are dropped
\* and replaced by the original value
TransformedSetValue(hooks, value) ==
    LET t1 == IF hooks.Set THEN SetHook(value) ELSE value
        t2 == IF hooks.Enum /\ Violates(t1) THEN value ELSE t1
    IN IF hooks.Validate /\ Violates(t2) THEN value ELSE t2

\* ApplySetTransformations on one bucket: the SET bucket (isSet) is
\* transformed and validated, the ADD and DELETE buckets only transformed
ApplySetTransformations(ops, isSet) ==
    [n \in DOMAIN ops |->
       IF n \notin DOMAIN UpdateCatalog THEN ops[n]
       ELSE IF isSet THEN TransformedSetValue(UpdateCatalog[n], ops[n])
       ELSE IF UpdateCatalog[n].Set THEN SetHook(ops[n])
       ELSE ops[n]]

\* fmt.Sprintf("#attr%d", valueCounter) and fmt.Sprintf(":val%d", valueCounter)
NameRef(n)  == <<"#","a","t","t","r">> \o Itoa(n)
ValueRef(n) == <<":","v","a","l">> \o Itoa(n)

KwSET    == <<"S","E","T">>
KwADD    == <<"A","D","D">>
KwDELETE == <<"D","E","L","E","T","E">>
KwREMOVE == <<"R","E","M","O","V","E">>
Space    == <<" ">>
Comma    == <<",", " ">>
ListAppendOpen == <<"l","i","s","t","_","a","p","p","e","n","d","(">>

\* findSubstring(s, substr)
findSubstring(s, substr) ==
    \E i \in 0..(Len(s) - Len(substr)) : SubSeq(s, i + 1, i + Len(substr)) = substr

\* contains(s, substr)
contains(s, substr) ==
    /\ Len(s) >= Len(substr)
    /\ (s = substr \/ (Len(s) > Len(substr) /\ findSubstring(s, substr)))

\* the state of the compilation: text, tables, counter, and a pending error
NewBuild == [expr |-> <<>>, names |-> <<>>, values |-> <<>>, counter |-> 0, err |-> ""]

\* the separator dropped: a plausible slip
ClauseSepNone(expr) == expr

\* if updateExpr != "" { updateExpr += " " }
ClauseSep(expr) == IF expr # <<>> THEN expr \o Space ELSE expr

RECURSIVE ValueClause(_, _, _, _)
\* the body of the SET / ADD / DELETE loops over the bucket in iteration order
ValueClause(st, ops, i, sep) ==
    IF i > Len(ops) THEN st
    ELSE LET e1       == IF i > 1 THEN st.expr \o Comma ELSE st.expr
             attrName == NameRef(st.counter)
             valName  == ValueRef(st.counter)
         IN IF ops[i].value.kind = "bad"
            THEN [st EXCEPT !.err = "MarshalError"]
            ELSE ValueClause(
                   [expr    |-> e1 \o attrName \o sep \o valName,
                    names   |-> (attrName :> ops[i].attr) @@ st.names,
                    values  |-> (valName :> ops[i].value) @@ st.values,
                    counter |-> st.counter + 1,
                    err     |-> ""], ops, i + 1, sep)

\* lines 171-194
SetClause(st, ops) ==
    IF Len(ops) > 0
    THEN ValueClause([st EXCEPT !.expr = @ \o KwSET \o Space], ops, 1, <<" ","="," ">>)
    ELSE st

\* lines 196-222
AddClause(st, ops) ==
    IF st.err = "" /\ Len(ops) > 0
    THEN ValueClause([st EXCEPT !.expr = ClauseSep(@) \o KwADD \o Space], ops, 1, Space)
    ELSE st

\* lines 224-250
DeleteClause(st, ops) ==
    IF st.err = "" /\ Len(ops) > 0
    THEN ValueClause([st EXCEPT !.expr = ClauseSep(@) \o KwDELETE \o Space], ops, 1, Space)
    ELSE st

RECURSIVE RemoveLoop(_, _, _)
\* lines 259-270
RemoveLoop(st, remOps, i) ==
    IF i > Len(remOps) THEN st
    ELSE LET e1       == IF i > 1 THEN st.expr \o Comma ELSE st.expr
             attrName == NameRef(st.counter)
         IN RemoveLoop([st EXCEPT !.expr    = e1 \o attrName,
                                  !.names   = (attrName :> remOps[i]) @@ st.names,
                                  !.counter = @ + 1], remOps, i + 1)

\* lines 252-271
RemoveClause(st, remOps) ==
    IF st.err = "" /\ Len(remOps) > 0
    THEN RemoveLoop([st EXCEPT !.expr = ClauseSep(@) \o KwREMOVE \o Space], remOps, 1)
    ELSE st

\* the right-hand side of an append, prepend or subtract assignment
FuncText(form, attrName, valName) ==
    CASE form = "append"   ->
           attrName \o <<" ","="," ">> \o ListAppendOpen \o attrName \o Comma \o valName \o <<")">>
      [] form = "prepend"  ->
           attrName \o <<" ","="," ">> \o ListAppendOpen \o valName \o Comma \o attrName \o <<")">>
      [] form = "subtract" ->
           attrName \o <<" ","="," ">> \o attrName \o <<" ","-"," ">> \o valName

RECURSIVE FuncOps(_, _, _, _)
\* lines 273-352: APPEND, PREPEND and SUBTRACT, each op choosing its lead-in
\* from the text built so far
FuncOps(st, ops, i, form) ==
    IF st.err # "" \/ i > Len(ops) THEN st
    ELSE LET e1 == IF st.expr = <<>> THEN KwSET \o Space
                   ELSE IF ~contains(st.expr, KwSET)
                        THEN st.expr \o Space \o KwSET \o Space
                        ELSE st.expr \o Comma
             attrName == NameRef(st.counter)
             valName  == ValueRef(st.counter)
         IN IF ops[i].value.kind = "bad"
            THEN [st EXCEPT !.err = "MarshalError"]
            ELSE FuncOps(
                   [expr    |-> e1 \o FuncText(form, attrName, valName),
                    names   |-> (attrName :> ops[i].attr) @@ st.names,
                    values  |-> (valName :> ops[i].value) @@ st.values,
                    counter |-> st.counter + 1,
                    err     |-> ""], ops, i + 1, form)

RECURSIVE IndexLoop(_, _, _, _)
\* lines 359-373: one REMOVE path "#attrN[index]" per list index
IndexLoop(st, attr, idx, j) ==
    IF j > Len(idx) THEN st
    ELSE LET e1 == IF st.expr # <<>> /\ ~contains(st.expr, KwREMOVE)
                   THEN st.expr \o Space \o KwREMOVE \o Space
                   ELSE IF contains(st.expr, KwREMOVE)
                        THEN st.expr \o Comma
                        ELSE KwREMOVE \o Space
             attrName == NameRef(st.counter)
         IN IndexLoop([st EXCEPT
                         !.expr    = e1 \o attrName \o <<"[">> \o Itoa(idx[j]) \o <<"]">>,
                         !.names   = (attrName :> attr) @@ st.names,
                         !.counter = @ + 1], attr, idx, j + 1)

RECURSIVE DataOps(_, _, _)
\* lines 354-376: only []int values are used
DataOps(st, ops, i) ==
    IF st.err # "" \/ i > Len(ops) THEN st
    ELSE IF ops[i].value.kind = "ints"
         THEN DataOps(IndexLoop(st, ops[i].attr, ops[i].value.idx, 1), ops, i + 1)
         ELSE DataOps(st, ops, i + 1)

\* a map bucket read in the iteration order `order`
InOrder(bucket, order) ==
    [i \in 1..Len(order) |-> [attr |-> order[i], value |-> bucket[order[i]]]]

\* the orders in which range may iterate a map
Orders(bucket) ==
    { o \in [1..Cardinality(DOMAIN bucket) -> DOMAIN bucket] :
        \A i, j \in DOMAIN o : i # j => o[i] # o[j] }

NoParams(err) ==
    [err |-> err, TableName |-> "", Key |-> <<>>, UpdateExpression |-> <<>>,
     ExpressionAttributeNames |-> <<>>, ExpressionAttributeValues |-> <<>>,
     ReturnValues |-> ""]

\* BuildUpdateItemParams for one choice of the map iteration orders `ord`;
\* ord.set ranges over the SET bucket after ApplyUpdateTimestamps
BuildUpdateItemParams(in, setOps, ord) ==
    LET getParams == BuildGetItemParams(in.keys)
        roErr     == ValidateUpdateOperations(setOps, in.add, in.del, in.rem, in.readOnly)
        tSet      == ApplySetTransformations(setOps, TRUE)
        tAdd      == ApplySetTransformations(in.add, FALSE)
        tDel      == ApplySetTransformations(in.del, FALSE)
        s1 == SetClause(NewBuild, InOrder(tSet, ord.set))
        s2 == AddClause(s1, InOrder(tAdd, ord.add))
        s3 == DeleteClause(s2, InOrder(tDel, ord.del))
        s4 == RemoveClause(s3, in.rem)
        s5 == FuncOps(s4, InOrder(in.app, ord.app), 1, "append")
        s6 == FuncOps(s5, InOrder(in.pre, ord.pre), 1, "prepend")
        s7 == FuncOps(s6, InOrder(in.sub, ord.sub), 1, "subtract")
        s8 == DataOps(s7, InOrder(in.data, ord.data), 1)
    IN IF getParams.err # "" THEN NoParams(getParams.err)
       ELSE IF roErr # "" THEN NoParams(roErr)
       ELSE IF s8.err # "" THEN NoParams(s8.err)
       ELSE [err                       |-> "",
             TableName                 |-> "TestTable",
             Key                       |-> getParams.Key,
             UpdateExpression          |-> s8.expr,
             ExpressionAttributeNames  |-> s8.names,
             ExpressionAttributeValues |-> s8.values,
             ReturnValues              |-> IF in.response # "" THEN in.response
                                           ELSE "ALL_NEW"]

----------------------------------------------------------------------------
(* Inputs of the update builder                                            *)

MaxOps == 3

Buckets == {"set", "add", "del", "rem", "app", "pre", "sub", "data"}

UpdateAttrs == {"a", "b", "c"}

Slots == Buckets \X UpdateAttrs

ValueUniverse == {PlainVal, BadVal, IntsVal(<<0>>), IntsVal(<<0, 2>>), OtherVal}

SlotValues(slot) ==
    CASE slot[1] = "data" -> {IntsVal(<<0>>), IntsVal(<<0, 2>>), OtherVal}
      [] slot[1] = "rem"  -> {PlainVal}
      [] OTHER            -> {PlainVal, BadVal}

RECURSIVE SubsetsUpTo(_, _)
\* the subsets of S with at most k elements
SubsetsUpTo(S, k) ==
    IF k = 0 THEN {{}}
    ELSE LET prev == SubsetsUpTo(S, k - 1)
         IN prev \cup { p \cup {x} : p \in prev, x \in S }

SlotSets == SubsetsUpTo(Slots, MaxOps)

\* the bucket b of an update given as slots S with values f
BucketOf(S, f, b) ==
    [a \in { s[2] : s \in { x \in S : x[1] = b } } |-> f[<<b, a>>]]

KeyChoices == { <<>>, (<<"i","D">> :> StrVal(<<"A","b">>)) }

UpdInit ==
    /\ \E S \in SlotSets :
       \E f \in { g \in [S -> ValueUniverse] : \A x \in S : g[x] \in SlotValues(x) } :
       \E rem \in Orders(BucketOf(S, f, "rem")) :
       \E keys \in KeyChoices, ts \in BOOLEAN :
          uIn = [keys       |-> keys,
                 timestamps |-> ts,
                 readOnly   |-> {},
                 response   |-> "",
                 set  |-> BucketOf(S, f, "set"),
                 add  |-> BucketOf(S, f, "add"),
                 del  |-> BucketOf(S, f, "del"),
                 rem  |-> rem,
                 app  |-> BucketOf(S, f, "app"),
                 pre  |-> BucketOf(S, f, "pre"),
                 sub  |-> BucketOf(S, f, "sub"),
                 data |-> BucketOf(S, f, "data")]
    /\ uOut = NoParams("")
    /\ upc = "ready"
    /\ KeyIdle
    /\ ExprIdle
    /\ CurIdle
    /\ PutIdle
    /\ QryIdle
    /\ ReadIdle
    /\ EntIdle
    /\ LateIdle

\* one call of BuildUpdateItemParams; Go leaves the iteration order of each
\* map unspecified, so every order is a possible run
CallBuildUpdate ==
    /\ upc = "ready"
    /\ LET setOps == ApplyUpdateTimestamps(uIn.set, uIn.timestamps)
       IN \E os \in Orders(setOps), oa \in Orders(uIn.add), od \in Orders(uIn.del),
             op \in Orders(uIn.app), oq \in Orders(uIn.pre), ou \in Orders(uIn.sub),
             ox \in Orders(uIn.data) :
            uOut' = BuildUpdateItemParams(uIn, setOps,
                       [set |-> os, add |-> oa, del |-> od, app |-> op,
                        pre |-> oq, sub |-> ou, data |-> ox])
    /\ upc' = "done"
    /\ UNCHANGED uIn
    /\ UNCHANGED <<keyVars, exprVars, curVars, putVars, qryVars, readVars, entVars, lateVars>>

UpdNext == CallBuildUpdate

SpecUpdate == UpdInit /\ [][UpdNext]_vars

----------------------------------------------------------------------------
(* Properties of the update expression                                     *)

UpdBuilt == upc = "done" /\ uOut.err = ""

\* the SET bucket as compiled: the caller's assignments plus updatedAt when
\* the schema has timestamps
EffectiveSet ==
    IF uIn.timestamps THEN DOMAIN uIn.set \cup {UpdatedAtName} ELSE DOMAIN uIn.set

RemSet == { uIn.rem[i] : i \in 1..Len(uIn.rem) }

OnlyBasicBuckets ==
    /\ DOMAIN uIn.app = {} /\ DOMAIN uIn.pre = {}
    /\ DOMAIN uIn.sub = {} /\ DOMAIN uIn.data = {}

DisjointBasic ==
    /\ EffectiveSet \cap DOMAIN uIn.add = {}
    /\ EffectiveSet \cap DOMAIN uIn.del = {}
    /\ EffectiveSet \cap RemSet = {}
    /\ DOMAIN uIn.add \cap DOMAIN uIn.del = {}
    /\ DOMAIN uIn.add \cap RemSet = {}
    /\ DOMAIN uIn.del \cap RemSet = {}

RECURSIVE JoinOps(_, _, _, _)
\* n operations numbered from `first`, comma-joined; each is the name
\* placeholder, then `sep` and the value placeholder when the kind has values
JoinOps(first, n, sep, withValue) ==
    IF n = 0 THEN <<>>
    ELSE (IF n > 1 THEN JoinOps(first, n - 1, sep, withValue) \o <<",", " ">> ELSE <<>>)
         \o <<"#","a","t","t","r">> \o Itoa(first + n - 1)
         \o (IF withValue
             THEN sep \o <<":","v","a","l">> \o Itoa(first + n - 1)
             ELSE <<>>)

\* keyword, one space, the comma-joined operations; empty when n = 0
ClauseText(kw, first, n, sep, withValue) ==
    IF n = 0 THEN <<>> ELSE kw \o <<" ">> \o JoinOps(first, n, sep, withValue)

\* two texts joined by a single space when both are present
Spaced(x, y) == IF x = <<>> THEN y ELSE IF y = <<>> THEN x ELSE x \o <<" ">> \o y

NSet == Cardinality(EffectiveSet)
NAdd == Cardinality(DOMAIN uIn.add)
NDel == Cardinality(DOMAIN uIn.del)
NRem == Len(uIn.rem)

ExpectedBasicExpr ==
    Spaced(Spaced(Spaced(
        ClauseText(<<"S","E","T">>, 0, NSet, <<" ","="," ">>, TRUE),
        ClauseText(<<"A","D","D">>, NSet, NAdd, <<" ">>, TRUE)),
        ClauseText(<<"D","E","L","E","T","E">>, NSet + NAdd, NDel, <<" ">>, TRUE)),
        ClauseText(<<"R","E","M","O","V","E">>, NSet + NAdd + NDel, NRem, <<>>, FALSE))

\* the attributes named by the placeholders numbered first .. first+n-1
NamedBy(first, n) ==
    { uOut.ExpressionAttributeNames[<<"#","a","t","t","r">> \o Itoa(k)] :
        k \in first..(first + n - 1) }

\* C1: with only the Set, Add, Delete and Remove buckets on disjoint
\* attributes, the UpdateExpression is exactly the non-empty clauses, each
\* its keyword and its own comma-joined operations, joined by one space in
\* the order SET, ADD, DELETE, REMOVE; the placeholders of each clause name
\* the attributes of its own bucket.
C1_ClausesOnceInOrder ==
    (UpdBuilt /\ OnlyBasicBuckets /\ DisjointBasic) =>
        /\ uOut.UpdateExpression = ExpectedBasicExpr
        /\ DOMAIN uOut.ExpressionAttributeNames =
             { <<"#","a","t","t","r">> \o Itoa(k) : k \in 0..(NSet + NAdd + NDel + NRem - 1) }
        /\ NamedBy(0, NSet) = EffectiveSet
        /\ NamedBy(NSet, NAdd) = DOMAIN uIn.add
        /\ NamedBy(NSet + NAdd, NDel) = DOMAIN uIn.del
        /\ NamedBy(NSet + NAdd + NDel, NRem) = RemSet

\* SET (updatedAt), an ADD clause of two operations and a REMOVE clause
C1_Witness ==
    /\ UpdBuilt /\ OnlyBasicBuckets /\ DisjointBasic
    /\ NSet = 1 /\ NAdd = 2 /\ NDel = 0 /\ NRem = 1
    /\ uOut.UpdateExpression = ExpectedBasicExpr

\* the positions at which the keyword kw starts in the text
KwStarts(expr, kw) ==
    { i \in 1..Len(expr) : i + Len(kw) - 1 <= Len(expr)
                           /\ SubSeq(expr, i, i + Len(kw) - 1) = kw }

ClauseKeywords ==
    { <<"S","E","T">>, <<"A","D","D">>, <<"D","E","L","E","T","E">>,
      <<"R","E","M","O","V","E">> }

\* the keyword of the clause that position p of the text lies in
ClauseAt(expr, p) ==
    LET before == { q \in 1..p : \E kw \in ClauseKeywords : q \in KwStarts(expr, kw) }
        last   == CHOOSE q \in before : \A r \in before : r <= q
    IN IF before = {} THEN <<>>
       ELSE CHOOSE kw \in ClauseKeywords : last \in KwStarts(expr, kw)

\* the positions where an append/prepend call or a subtraction is rendered
FunctionOpStarts(expr) ==
    KwStarts(expr, <<"l","i","s","t","_","a","p","p","e","n","d","(">>)
      \cup KwStarts(expr, <<" ","-"," ">>)

\* C2: for every combination of buckets each of SET, ADD, DELETE, REMOVE
\* occurs at most once, and every append, prepend and subtract assignment
\* lies in the single SET clause, which no ADD, DELETE or REMOVE clause
\* precedes.
C2_FunctionOpsInSetClause ==
    UpdBuilt =>
        LET expr == uOut.UpdateExpression IN
        /\ \A kw \in ClauseKeywords : Cardinality(KwStarts(expr, kw)) <= 1
        /\ \A p \in FunctionOpStarts(expr) :
             /\ ClauseAt(expr, p) = <<"S","E","T">>
             /\ \A kw \in ClauseKeywords \ {<<"S","E","T">>} :
                  \A q \in KwStarts(expr, kw) : q > p

----------------------------------------------------------------------------
(* DynamoDB attribute values (types.AttributeValue)                        *)

AvRec(t, s, b, ss, m, l, bin, bs) ==
    [t |-> t, s |-> s, b |-> b, ss |-> ss, m |-> m, l |-> l, bin |-> bin, bs |-> bs]

AvS(s)    == AvRec("S",    s,    FALSE, <<>>, <<>>, <<>>, <<>>, <<>>)
AvN(s)    == AvRec("N",    s,    FALSE, <<>>, <<>>, <<>>, <<>>, <<>>)
AvB(bin)  == AvRec("B",    <<>>, FALSE, <<>>, <<>>, <<>>, bin,  <<>>)
AvBOOL(b) == AvRec("BOOL", <<>>, b,     <<>>, <<>>, <<>>, <<>>, <<>>)
AvNULL(b) == AvRec("NULL", <<>>, b,     <<>>, <<>>, <<>>, <<>>, <<>>)
AvSS(ss)  == AvRec("SS",   <<>>, FALSE, ss,   <<>>, <<>>, <<>>, <<>>)
AvNS(ss)  == AvRec("NS",   <<>>, FALSE, ss,   <<>>, <<>>, <<>>, <<>>)
AvBS(bs)  == AvRec("BS",   <<>>, FALSE, <<>>, <<>>, <<>>, <<>>, bs)
AvM(m)    == AvRec("M",    <<>>, FALSE, <<>>, m,    <<>>, <<>>, <<>>)
AvL(l)    == AvRec("L",    <<>>, FALSE, <<>>, <<>>, l,    <<>>, <<>>)

----------------------------------------------------------------------------
(* The expression builder                                                  *)

\* NewExpressionBuilder
NewExpressionBuilder ==
    [names |-> <<>>, values |-> <<>>, expression |-> <<>>,
     nameCount |-> 0, valueCount |-> 0]

\* a nil *FilterBuilder / *ConditionBuilder
NilBuilder ==
    [names |-> <<>>, values |-> <<>>, expression |-> <<"<","n","i","l",">">>,
     nameCount |-> -1, valueCount |-> -1]

\* marshalValue for string, int and bool values
marshalValue(v) ==
    CASE v.t = "string" -> AvS(v.s)
      [] v.t = "int"    -> AvN(Itoa(v.n))
      [] v.t = "bool"   -> AvBOOL(v.b)

\* addName with the eb.nameCount++ left out
addNameSameCount(eb, name) ==
    LET placeholder == <<"#","a","t","t","r">> \o Itoa(eb.nameCount)
    IN [ref |-> placeholder,
        eb  |-> [eb EXCEPT !.names = (placeholder :> name) @@ eb.names]]

\* addName: the placeholder and the builder after the call
addName(eb, name) ==
    LET placeholder == <<"#","a","t","t","r">> \o Itoa(eb.nameCount)
    IN [ref |-> placeholder,
        eb  |-> [eb EXCEPT !.nameCount = @ + 1,
                           !.names = (placeholder :> name) @@ eb.names]]

\* addValue: the placeholder and the builder after the call
addValue(eb, value) ==
    LET placeholder == <<":","v","a","l">> \o Itoa(eb.valueCount)
    IN [ref |-> placeholder,
        eb  |-> [eb EXCEPT !.valueCount = @ + 1,
                           !.values = (placeholder :> marshalValue(value)) @@ eb.values]]

\* the comparison symbol of Eq, Ne, Gt, Gte, Lt, Lte
CompareSymbol(op) ==
    CASE op = "Eq"  -> <<"=">>
      [] op = "Ne"  -> <<"<", ">">>
      [] op = "Gt"  -> <<">">>
      [] op = "Gte" -> <<">", "=">>
      [] op = "Lt"  -> <<"<">>
      [] op = "Lte" -> <<"<", "=">>

\* the function name of Contains, Begins, Exists, NotExists, Size
FunctionName(op) ==
    CASE op = "Contains"  -> <<"c","o","n","t","a","i","n","s">>
      [] op = "Begins"    -> <<"b","e","g","i","n","s","_","w","i","t","h">>
      [] op = "Exists"    -> <<"a","t","t","r","i","b","u","t","e","_","e","x","i","s","t","s">>
      [] op = "NotExists" -> <<"a","t","t","r","i","b","u","t","e","_","n","o","t","_",
                               "e","x","i","s","t","s">>
      [] op = "Size"      -> <<"s","i","z","e">>

\* the text an AttributeRef / OperationBuilder call returns, given the results
\* n, v1 and v2 of its addName and addValue calls
OperationText(n, v1, v2, atom) ==
    CASE atom.op \in {"Eq", "Ne", "Gt", "Gte", "Lt", "Lte"} ->
           [text |-> n.ref \o Space \o CompareSymbol(atom.op) \o Space \o v1.ref,
            eb   |-> v1.eb]
      [] atom.op = "Between" ->
           [text |-> <<"(">> \o n.ref \o <<" ","B","E","T","W","E","E","N"," ">>
                       \o v1.ref \o <<" ","A","N","D"," ">> \o v2.ref \o <<")">>,
            eb   |-> v2.eb]
      [] atom.op \in {"Contains", "Begins"} ->
           [text |-> FunctionName(atom.op) \o <<"(">> \o n.ref \o Comma
                       \o v1.ref \o <<")">>,
            eb   |-> v1.eb]
      [] atom.op \in {"Exists", "NotExists", "Size"} ->
           [text |-> FunctionName(atom.op) \o <<"(">> \o n.ref \o <<")">>,
            eb   |-> n.eb]

\* the addValue calls of the operation, after its addName call returned n
OperationValues(n, v1, atom) == OperationText(n, v1, addValue(v1.eb, atom.v2), atom)

OperationNamed(n, atom) == OperationValues(n, addValue(n.eb, atom.v1), atom)

\* one AttributeRef / OperationBuilder call: the fragment text and the
\* builder after its addName / addValue calls
Operation(eb, atom) == OperationNamed(addName(eb, atom.attr), atom)

RECURSIVE RunCallback(_, _, _, _)
\* the callback's text after its i-th operation returned r
Joined(r, cb, i, text) ==
    RunCallback(r.eb, cb, i + 1, IF i > 1 THEN text \o cb.glue \o r.text ELSE r.text)

\* a WhereCallback: it calls its operations in order and returns their texts
\* joined by its own connective (" AND " or " OR ")
RunCallback(eb, cb, i, text) ==
    IF i > Len(cb.atoms) THEN [text |-> text, eb |-> eb]
    ELSE Joined(Operation(eb, cb.atoms[i]), cb, i, text)

\* AddExpression
AddExpression(eb, expr) ==
    IF eb.expression = <<>>
    THEN [eb EXCEPT !.expression = expr]
    ELSE LET wrapped == IF ~HasPrefix(eb.expression, <<"(">>)
                        THEN <<"(">> \o eb.expression \o <<")">>
                        ELSE eb.expression
         IN [eb EXCEPT !.expression =
                 wrapped \o <<" ","A","N","D"," ","(">> \o expr \o <<")">>]

\* BuildWhereExpression after the callback returned r: an empty text adds
\* nothing
AddCallbackText(r) == IF r.text = <<>> THEN r.eb ELSE AddExpression(r.eb, r.text)

\* BuildWhereExpression
BuildWhereExpression(eb, cb) == AddCallbackText(RunCallback(eb, cb, 1, <<>>))

\* MergeExpressionAttributes: new entries are written over existing ones
MergeExpressionAttributes(existingNames, existingValues, newNames, newValues) ==
    [names |-> newNames @@ existingNames, values |-> newValues @@ existingValues]

\* the merge with fresh keys for the new entries left out: what the code does
\* not do, kept as the reference of a collision-free union
MergeTableSizes(existing, new) ==
    Cardinality(DOMAIN existing) + Cardinality(DOMAIN new)

----------------------------------------------------------------------------
(* electrodb/query.go: QueryChain.Where and QueryChain.Filter              *)

\* Where and Filter after the fresh builder fb has compiled the callback:
\* the chain's builder takes fb, or is joined with it by " AND "
ChainMerge(filterBuilder, fb) ==
    IF filterBuilder # NilBuilder
    THEN [filterBuilder |->
            [NewExpressionBuilder EXCEPT
               !.expression = filterBuilder.expression
                                \o <<" ","A","N","D"," ">> \o fb.expression,
               !.names  = MergeExpressionAttributes(filterBuilder.names,
                              filterBuilder.values, fb.names, fb.values).names,
               !.values = MergeExpressionAttributes(filterBuilder.names,
                              filterBuilder.values, fb.names, fb.values).values],
          fb             |-> fb,
          merged         |-> TRUE,
          existingExpr   |-> filterBuilder.expression,
          existingNames  |-> filterBuilder.names,
          existingValues |-> filterBuilder.values]
    ELSE [filterBuilder  |-> fb,
          fb             |-> fb,
          merged         |-> FALSE,
          existingExpr   |-> <<>>,
          existingNames  |-> <<>>,
          existingValues |-> <<>>]

\* the body shared by Where and Filter once the callback is chosen
ChainWhere(filterBuilder, cb) ==
    ChainMerge(filterBuilder, BuildWhereExpression(NewExpressionBuilder, cb))

MaxWhere == 3

Atom(op, attr, v1, v2) == [op |-> op, attr |-> attr, v1 |-> v1, v2 |-> v2]

\* the callbacks a caller passes to Where
Callbacks ==
    { [atoms |-> << Atom("Eq", "name", StrVal(<<"x">>), IntVal(0)) >>,
       glue  |-> <<>>],
      [atoms |-> << Atom("Eq", "status", StrVal(<<"o","n">>), IntVal(0)),
                    Atom("Gt", "age", IntVal(18), IntVal(0)) >>,
       glue  |-> <<" ","O","R"," ">>],
      [atoms |-> << Atom("Between", "age", IntVal(1), IntVal(9)) >>,
       glue  |-> <<>>],
      [atoms |-> << Atom("Exists", "name", IntVal(0), IntVal(0)),
                    Atom("Begins", "name", StrVal(<<"a">>), IntVal(0)) >>,
       glue  |-> <<" ","A","N","D"," ">>],
      [atoms |-> << Atom("Between", "age", IntVal(1), IntVal(9)),
                    Atom("Eq", "name", StrVal(<<"x">>), IntVal(0)) >>,
       glue  |-> <<" ","O","R"," ">>],
      [atoms |-> <<>>, glue |-> <<>>] }

\* Schema.Filters: the named filters of the entity
SchemaFilters ==
    [byActive |-> [atoms |-> << Atom("Eq", "active", BoolVal(TRUE), IntVal(0)) >>,
                   glue  |-> <<>>]]

FilterNamesTried == {"byActive", "missing"}

NoLocal ==
    [filterBuilder |-> NilBuilder, fb |-> NilBuilder, merged |-> FALSE,
     existingExpr |-> <<>>, existingNames |-> <<>>, existingValues |-> <<>>]

NoTx ==
    [built |-> FALSE, err |-> "", UpdateExpression |-> <<>>,
     ConditionExpression |-> <<>>,
     ExpressionAttributeNames |-> <<>>, ExpressionAttributeValues |-> <<>>,
     updateNames |-> <<>>, updateValues |-> <<>>,
     condNames |-> <<>>, condValues |-> <<>>, merged |-> FALSE]

ExprInit ==
    /\ qcFilter = NilBuilder
    /\ qcLocal = NoLocal
    /\ qcCalls = 0
    /\ txOut = NoTx
    /\ KeyIdle
    /\ UpdIdle
    /\ CurIdle
    /\ PutIdle
    /\ QryIdle
    /\ ReadIdle
    /\ EntIdle
    /\ LateIdle

\* QueryChain.Where(callback)
Where ==
    /\ qcCalls < MaxWhere
    /\ ~txOut.built
    /\ \E cb \in Callbacks :
         /\ qcLocal' = ChainWhere(qcFilter, cb)
         /\ qcFilter' = qcLocal'.filterBuilder
    /\ qcCalls' = qcCalls + 1
    /\ UNCHANGED txOut
    /\ UNCHANGED <<keyVars, updVars, curVars, putVars, qryVars, readVars, entVars, lateVars>>

\* QueryChain.Filter(filterName, params)
Filter ==
    /\ qcCalls < MaxWhere
    /\ ~txOut.built
    /\ \E name \in FilterNamesTried :
         IF name \notin DOMAIN SchemaFilters
         THEN UNCHANGED <<qcFilter, qcLocal>>
         ELSE /\ qcLocal' = ChainWhere(qcFilter, SchemaFilters[name])
              /\ qcFilter' = qcLocal'.filterBuilder
    /\ qcCalls' = qcCalls + 1
    /\ UNCHANGED txOut
    /\ UNCHANGED <<keyVars, updVars, curVars, putVars, qryVars, readVars, entVars, lateVars>>

----------------------------------------------------------------------------
(* TransactUpdateItem.BuildTransactItem                                    *)

\* the update operations committed to a transaction: SET, ADD, DELETE, REMOVE
TxUpdates ==
    { [keys |-> keys, timestamps |-> FALSE, readOnly |-> {}, response |-> "",
       set |-> set, add |-> add, del |-> <<>>, rem |-> rem,
       app |-> <<>>, pre |-> <<>>, sub |-> <<>>, data |-> <<>>] :
        keys \in KeyChoices,
        set \in { <<>>, [a |-> PlainVal], [a |-> PlainVal, b |-> PlainVal] },
        add \in { <<>>, [c |-> PlainVal] },
        rem \in { <<>>, <<"d">> } }

\* BuildTransactItem from the point where its call of BuildUpdateItemParams
\* has returned params: the types.Update, with the tables of the condition
\* builder (nil when no condition was given) merged in
BuildTransactItem(params, conditionBuilder) ==
    IF params.err # "" THEN [NoTx EXCEPT !.built = TRUE, !.err = params.err]
    ELSE IF conditionBuilder # NilBuilder /\ conditionBuilder.expression # <<>>
         THEN [NoTx EXCEPT
                 !.built = TRUE,
                 !.UpdateExpression = params.UpdateExpression,
                 !.ConditionExpression = conditionBuilder.expression,
                 !.ExpressionAttributeNames =
                     MergeExpressionAttributes(
                         params.ExpressionAttributeNames, params.ExpressionAttributeValues,
                         conditionBuilder.names, conditionBuilder.values).names,
                 !.ExpressionAttributeValues =
                     MergeExpressionAttributes(
                         params.ExpressionAttributeNames, params.ExpressionAttributeValues,
                         conditionBuilder.names, conditionBuilder.values).values,
                 !.updateNames = params.ExpressionAttributeNames,
                 !.updateValues = params.ExpressionAttributeValues,
                 !.condNames = conditionBuilder.names,
                 !.condValues = conditionBuilder.values,
                 !.merged = TRUE]
         ELSE [NoTx EXCEPT
                 !.built = TRUE,
                 !.UpdateExpression = params.UpdateExpression,
                 !.ExpressionAttributeNames = params.ExpressionAttributeNames,
                 !.ExpressionAttributeValues = params.ExpressionAttributeValues,
                 !.updateNames = params.ExpressionAttributeNames,
                 !.updateValues = params.ExpressionAttributeValues]

\* UpdateOperation.Condition(callback): a fresh ConditionBuilder
Condition(cb) == BuildWhereExpression(NewExpressionBuilder, cb)

\* entity.Update(keys)...Condition(cb).Commit() built into a transaction item;
\* the item is an object of its own, built here apart from any query chain
TransactUpdate ==
    /\ qcCalls = 0
    /\ ~txOut.built
    /\ \E upd \in TxUpdates :
       \E cond \in {NilBuilder} \cup { Condition(cb) : cb \in Callbacks } :
       \E os \in Orders(upd.set), oa \in Orders(upd.add) :
          txOut' = BuildTransactItem(
                      BuildUpdateItemParams(upd, upd.set,
                          [set |-> os, add |-> oa, del |-> <<>>, app |-> <<>>,
                           pre |-> <<>>, sub |-> <<>>, data |-> <<>>]),
                      cond)
    /\ UNCHANGED <<qcFilter, qcLocal, qcCalls>>
    /\ UNCHANGED <<keyVars, updVars, curVars, putVars, qryVars, readVars, entVars, lateVars>>

ExprNext == Where \/ Filter \/ TransactUpdate

SpecExpr == ExprInit /\ [][ExprNext]_vars

\* C3: merging expressions compiled on independent builders never collides:
\* the merged name and value tables have as many entries as the two source
\* tables together, after Where/Filter on a chain and after a transactional
\* update merges its condition.
C3_MergeKeepsEveryPlaceholder ==
    /\ qcLocal.merged =>
         /\ Cardinality(DOMAIN qcFilter.names) =
              MergeTableSizes(qcLocal.existingNames, qcLocal.fb.names)
         /\ Cardinality(DOMAIN qcFilter.values) =
              MergeTableSizes(qcLocal.existingValues, qcLocal.fb.values)
    /\ txOut.merged =>
         /\ Cardinality(DOMAIN txOut.ExpressionAttributeNames) =
              MergeTableSizes(txOut.updateNames, txOut.condNames)
         /\ Cardinality(DOMAIN txOut.ExpressionAttributeValues) =
              MergeTableSizes(txOut.updateValues, txOut.condValues)

\* ---------------------------------------------------------------------------
\* Pagination cursors (cursor.go)
\* ---------------------------------------------------------------------------

\* A Go value as attributeValueToInterface returns it: nil, or a map with one
\* key whose element type is fixed by the map's static type g.
GoVal(g, key, s, b, ss, m, l, bin, bs) ==
    [g |-> g, key |-> key, s |-> s, b |-> b, ss |-> ss, m |-> m, l |-> l,
     bin |-> bin, bs |-> bs]

GoNil == GoVal("nil", "", <<>>, FALSE, <<>>, <<>>, <<>>, <<>>, <<>>)

RECURSIVE attributeValueToInterface(_)
attributeValueToInterface(av) ==
    CASE av.t = "S"    -> GoVal("map[string]string", "S", av.s, FALSE, <<>>, <<>>, <<>>, <<>>, <<>>)
      [] av.t = "N"    -> GoVal("map[string]string", "N", av.s, FALSE, <<>>, <<>>, <<>>, <<>>, <<>>)
      [] av.t = "B"    -> GoVal("map[string][]byte", "B", <<>>, FALSE, <<>>, <<>>, <<>>, av.bin, <<>>)
      [] av.t = "BOOL" -> GoVal("map[string]bool", "BOOL", <<>>, av.b, <<>>, <<>>, <<>>, <<>>, <<>>)
      [] av.t = "NULL" -> GoVal("map[string]bool", "NULL", <<>>, av.b, <<>>, <<>>, <<>>, <<>>, <<>>)
      [] av.t = "SS"   -> GoVal("map[string][]string", "SS", <<>>, FALSE, av.ss, <<>>, <<>>, <<>>, <<>>)
      [] av.t = "NS"   -> GoVal("map[string][]string", "NS", <<>>, FALSE, av.ss, <<>>, <<>>, <<>>, <<>>)
      [] av.t = "BS"   -> GoVal("map[string][][]byte", "BS", <<>>, FALSE, <<>>, <<>>, <<>>, <<>>, av.bs)
      [] av.t = "M"    -> GoVal("map[string]map[string]interface{}", "M", <<>>, FALSE, <<>>,
                                [k \in DOMAIN av.m |-> attributeValueToInterface(av.m[k])],
                                <<>>, <<>>, <<>>)
      [] av.t = "L"    -> GoVal("map[string][]interface{}", "L", <<>>, FALSE, <<>>, <<>>,
                                [i \in DOMAIN av.l |-> attributeValueToInterface(av.l[i])],
                                <<>>, <<>>)
      [] OTHER         -> GoNil

\* encoding/base64 StdEncoding over a byte slice (bytes are 0..255).
Base64Alphabet == UpperLetters \o LowerLetters \o Digits \o <<"+", "/">>

Base64Char(n) == Base64Alphabet[n + 1]

RECURSIVE Base64(_)
Base64(bytes) ==
    IF Len(bytes) = 0 THEN <<>>
    ELSE IF Len(bytes) = 1 THEN
        << Base64Char(bytes[1] \div 4), Base64Char((bytes[1] % 4) * 16), "=", "=" >>
    ELSE IF Len(bytes) = 2 THEN
        << Base64Char(bytes[1] \div 4),
           Base64Char((bytes[1] % 4) * 16 + bytes[2] \div 16),
           Base64Char((bytes[2] % 16) * 4), "=" >>
    ELSE
        << Base64Char(bytes[1] \div 4),
           Base64Char((bytes[1] % 4) * 16 + bytes[2] \div 16),
           Base64Char((bytes[2] % 16) * 4 + bytes[3] \div 64),
           Base64Char(bytes[3] % 64) >>
        \o Base64(SubSeq(bytes, 4, Len(bytes)))

\* A JSON document, in the form json.Unmarshal gives it when the target is
\* interface{}: j is the dynamic Go type of the decoded value.
JsonVal(j, s, b, a, o) == [j |-> j, s |-> s, b |-> b, a |-> a, o |-> o]

JString(s) == JsonVal("string", s, FALSE, <<>>, <<>>)
JNumber(s) == JsonVal("float64", s, FALSE, <<>>, <<>>)
JBool(b)   == JsonVal("bool", <<>>, b, <<>>, <<>>)
JNull      == JsonVal("nil", <<>>, FALSE, <<>>, <<>>)
JArray(a)  == JsonVal("[]interface{}", <<>>, FALSE, a, <<>>)
JObject(o) == JsonVal("map[string]interface{}", <<>>, FALSE, <<>>, o)

\* json.Marshal of a value attributeValueToInterface returned, as the document
\* it writes: a []byte is written as a base64 string, a nil interface as null.
RECURSIVE jsonMarshal(_)
jsonMarshal(v) ==
    CASE v.g = "nil" -> JNull
      [] v.g = "map[string]string" -> JObject(v.key :> JString(v.s))
      [] v.g = "map[string][]byte" -> JObject(v.key :> JString(Base64(v.bin)))
      [] v.g = "map[string]bool"   -> JObject(v.key :> JBool(v.b))
      [] v.g = "map[string][]string" ->
            JObject(v.key :> JArray([i \in DOMAIN v.ss |-> JString(v.ss[i])]))
      [] v.g = "map[string][][]byte" ->
            JObject(v.key :> JArray([i \in DOMAIN v.bs |-> JString(Base64(v.bs[i]))]))
      [] v.g = "map[string]map[string]interface{}" ->
            JObject(v.key :> JObject([k \in DOMAIN v.m |-> jsonMarshal(v.m[k])]))
      [] v.g = "map[string][]interface{}" ->
            JObject(v.key :> JArray([i \in DOMAIN v.l |-> jsonMarshal(v.l[i])]))

\* A cursor string: the empty string, text that is not standard base64, or the
\* base64 of some bytes, which are either no JSON document or the document doc.
CursorString(kind, isJson, doc) == [kind |-> kind, isJson |-> isJson, doc |-> doc]

EmptyCursor   == CursorString("empty", FALSE, JNull)
NotBase64     == CursorString("notBase64", FALSE, JNull)
Base64Of(doc) == CursorString("base64", TRUE, doc)
Base64NotJson == CursorString("base64", FALSE, JNull)

\* A map[string]types.AttributeValue, which may be the nil map.
KeyMap(isNil, m) == [isNil |-> isNil, m |-> m]

NilKeyMap == KeyMap(TRUE, <<>>)

NoError == ""

CursorDecodingError == "CursorDecodingError"

encodeCursor(lastKey) ==
    IF lastKey.isNil \/ DOMAIN lastKey.m = {} THEN [cursor |-> EmptyCursor, err |-> NoError]
    ELSE LET cursorData == [key \in DOMAIN lastKey.m |->
                               attributeValueToInterface(lastKey.m[key])]
             jsonBytes  == JObject([key \in DOMAIN cursorData |-> jsonMarshal(cursorData[key])])
         IN  [cursor |-> Base64Of(jsonBytes), err |-> NoError]

\* The type assertion m[key].(type): the key is present and holds that type.
Asserts(m, key, type) == key \in DOMAIN m /\ m[key].j = type

\* The string slice built from the elements of an SS or NS array: an element
\* that is not a string leaves the empty string.
StringSlice(list) ==
    [i \in DOMAIN list |-> IF list[i].j = "string" THEN list[i].s ELSE <<>>]

Converted(av) == [av |-> av, err |-> NoError]

ConversionError == [av |-> AvNULL(FALSE), err |-> CursorDecodingError]

NumberMemberAsString(n) == AvS(n)

NumberMember(n) == AvN(n)

RECURSIVE interfaceToAttributeValue(_)
interfaceToAttributeValue(val) ==
    IF val.j # "map[string]interface{}" THEN ConversionError
    ELSE LET m == val.o IN
        IF Asserts(m, "S", "string") THEN Converted(AvS(m["S"].s))
        ELSE IF Asserts(m, "N", "string") THEN Converted(NumberMember(m["N"].s))
        ELSE IF Asserts(m, "B", "[]byte") THEN Converted(AvB(m["B"].s))
        ELSE IF Asserts(m, "BOOL", "bool") THEN Converted(AvBOOL(m["BOOL"].b))
        ELSE IF Asserts(m, "NULL", "bool") THEN Converted(AvNULL(m["NULL"].b))
        ELSE IF Asserts(m, "SS", "[]interface{}") THEN Converted(AvSS(StringSlice(m["SS"].a)))
        ELSE IF Asserts(m, "NS", "[]interface{}") THEN Converted(AvNS(StringSlice(m["NS"].a)))
        ELSE IF Asserts(m, "M", "map[string]interface{}") THEN
            LET mapVal == m["M"].o
                each   == [k \in DOMAIN mapVal |-> interfaceToAttributeValue(mapVal[k])]
            IN  IF \E k \in DOMAIN each : each[k].err # NoError THEN ConversionError
                ELSE Converted(AvM([k \in DOMAIN each |-> each[k].av]))
        ELSE IF Asserts(m, "L", "[]interface{}") THEN
            LET list == m["L"].a
                each == [i \in DOMAIN list |-> interfaceToAttributeValue(list[i])]
            IN  IF \E i \in DOMAIN each : each[i].err # NoError THEN ConversionError
                ELSE Converted(AvL([i \in DOMAIN each |-> each[i].av]))
        ELSE ConversionError

Decoded(key, err) == [key |-> key, err |-> err]

\* json.Unmarshal into a map[string]interface{}: an object fills the map, null
\* leaves it nil, any other document is an error.
decodeCursor(cursor) ==
    IF cursor.kind = "empty" THEN Decoded(NilKeyMap, NoError)
    ELSE IF cursor.kind = "notBase64" THEN Decoded(NilKeyMap, CursorDecodingError)
    ELSE IF ~cursor.isJson \/ cursor.doc.j \notin {"map[string]interface{}", "nil"}
         THEN Decoded(NilKeyMap, CursorDecodingError)
    ELSE LET cursorData == cursor.doc.o
             each == [key \in DOMAIN cursorData |-> interfaceToAttributeValue(cursorData[key])]
         IN  IF \E key \in DOMAIN each : each[key].err # NoError
             THEN Decoded(NilKeyMap, CursorDecodingError)
             ELSE Decoded(KeyMap(FALSE, [key \in DOMAIN each |-> each[key].av]), NoError)

\* --- inputs ---------------------------------------------------------------

MaxDepth == 2

LeafValues ==
    { AvS(<<"a">>), AvS(<<>>), AvN(<<"1">>), AvBOOL(TRUE), AvBOOL(FALSE),
      AvB(<<104, 105>>), AvNULL(TRUE), AvSS(<< <<"a">>, <<"b">> >>),
      AvNS(<< <<"1">> >>), AvBS(<< <<104>> >>) }

RECURSIVE AttributeValues(_)
AttributeValues(depth) ==
    IF depth = 0 THEN LeafValues
    ELSE LET sub == AttributeValues(depth - 1)
         IN  sub \cup { AvM(<<>>), AvL(<<>>) }
                 \cup { AvM("k" :> x) : x \in sub }
                 \cup { AvL(<<x>>) : x \in sub }
                 \cup { AvL(<<AvS(<<"a">>), x>>) : x \in sub }

SortKeyValues == { AvS(<<"b">>), AvN(<<"2">>) }

LastEvaluatedKeys ==
    { NilKeyMap, KeyMap(FALSE, <<>>) }
        \cup { KeyMap(FALSE, "pk" :> p) : p \in AttributeValues(MaxDepth) }
        \cup { KeyMap(FALSE, ("pk" :> p) @@ ("sk" :> q)) :
                   p \in AttributeValues(MaxDepth), q \in SortKeyValues }

\* The tag keys interfaceToAttributeValue looks for, and keys it does not.
TagKeys == { "S", "N", "B", "BOOL", "NULL", "SS", "NS", "M", "L" }

OtherKeys == { "BS", "X" }

Payloads ==
    { JString(<<"a">>), JNumber(<<"1">>), JBool(TRUE), JNull, JArray(<<>>),
      JArray(<<JString(<<"a">>)>>), JArray(<<JNumber(<<"1">>)>>), JObject(<<>>) }

RECURSIVE ValueDocuments(_)
ValueDocuments(depth) ==
    IF depth = 0 THEN
        Payloads
            \cup { JObject(k :> p) : k \in TagKeys \cup OtherKeys, p \in Payloads }
            \cup { JObject((k1 :> p1) @@ (k2 :> p2)) :
                       k1 \in OtherKeys, k2 \in TagKeys,
                       p1 \in { JString(<<"a">>) }, p2 \in { JString(<<"a">>), JBool(TRUE) } }
    ELSE LET sub == ValueDocuments(depth - 1)
         IN  sub \cup { JObject("M" :> JObject("k" :> x)) : x \in sub }
                 \cup { JObject("L" :> JArray(<<x>>)) : x \in sub }

ClientCursors ==
    { NotBase64, Base64NotJson }
        \cup { Base64Of(d) : d \in { JNull, JArray(<<>>), JString(<<"a">>), JObject(<<>>) } }
        \cup { Base64Of(JObject("pk" :> v)) : v \in ValueDocuments(MaxDepth) }

NotDecoded == Decoded(NilKeyMap, NoError)

CursorInit ==
    /\ cResume \in LastEvaluatedKeys
    /\ cCursor = EmptyCursor
    /\ cDecoded = NotDecoded
    /\ cpc = "start"
    /\ KeyIdle
    /\ UpdIdle
    /\ ExprIdle
    /\ PutIdle
    /\ QryIdle
    /\ ReadIdle
    /\ EntIdle
    /\ LateIdle

\* A page came back with cResume as its LastEvaluatedKey.
EncodeCursor ==
    /\ cpc = "start"
    /\ cCursor' = encodeCursor(cResume).cursor
    /\ cpc' = "encoded"
    /\ UNCHANGED <<cResume, cDecoded>>
    /\ UNCHANGED <<keyVars, updVars, exprVars, putVars, qryVars, readVars, entVars, lateVars>>

\* The cursor of the last page is handed back for the next one.
DecodeCursor ==
    /\ cpc = "encoded"
    /\ cDecoded' = decodeCursor(cCursor)
    /\ cpc' = "decoded"
    /\ UNCHANGED <<cResume, cCursor>>
    /\ UNCHANGED <<keyVars, updVars, exprVars, putVars, qryVars, readVars, entVars, lateVars>>

\* A caller supplies a cursor string of its own.
DecodeClientCursor ==
    /\ cpc = "start"
    /\ cResume = NilKeyMap
    /\ \E c \in ClientCursors :
          /\ cCursor' = c
          /\ cDecoded' = decodeCursor(c)
    /\ cpc' = "external"
    /\ UNCHANGED cResume
    /\ UNCHANGED <<keyVars, updVars, exprVars, putVars, qryVars, readVars, entVars, lateVars>>

CursorNext == EncodeCursor \/ DecodeCursor \/ DecodeClientCursor

SpecCursor == CursorInit /\ [][CursorNext]_vars

\* --- properties of the cursor codec -----------------------------------------

RoundTripped == cpc = "decoded"

NoResumePoint == cResume.isNil \/ DOMAIN cResume.m = {}

RECURSIVE TaggedWithin(_, _)
TaggedWithin(av, scalars) ==
    CASE av.t = "M" -> \A k \in DOMAIN av.m : TaggedWithin(av.m[k], scalars)
      [] av.t = "L" -> \A i \in DOMAIN av.l : TaggedWithin(av.l[i], scalars)
      [] OTHER      -> av.t \in scalars

ResumeWithin(scalars) ==
    /\ ~NoResumePoint
    /\ \A key \in DOMAIN cResume.m : TaggedWithin(cResume.m[key], scalars)

SameResumePoint ==
    /\ cDecoded.err = NoError
    /\ ~cDecoded.key.isNil
    /\ cDecoded.key.m = cResume.m

\* C8: decoding the encoding of a resume point whose values are S, N, BOOL, or
\* M and L nested from these, gives back the same resume point; a nil or empty
\* resume point encodes to the empty string, and the empty string decodes to
\* no resume point with no error.
C8_RoundTripKeyTypes ==
    RoundTripped =>
        /\ ResumeWithin({"S", "N", "BOOL"}) => SameResumePoint
        /\ NoResumePoint => /\ cCursor = EmptyCursor
                            /\ cDecoded = Decoded(NilKeyMap, NoError)

C8_Witness ==
    /\ RoundTripped
    /\ cResume.m = ("pk" :> AvM("k" :> AvL(<<AvS(<<"a">>), AvBOOL(TRUE)>>)))
                       @@ ("sk" :> AvN(<<"2">>))
    /\ cCursor.kind = "base64"
    /\ SameResumePoint

\* C9: the round trip gives back the same resume point for every tagged form:
\* S, N, B, BOOL, NULL, SS, NS, M and L.
C9_RoundTripEveryTag ==
    (RoundTripped /\ ResumeWithin({"S", "N", "B", "BOOL", "NULL", "SS", "NS"}))
        => SameResumePoint

\* A value object is a value of the top-level object, of an M object or of an
\* L array; it has an unrecognized tag key when one of its keys is no tag.
RECURSIVE HasUnknownTag(_)
HasUnknownTag(v) ==
    /\ v.j = "map[string]interface{}"
    /\ \/ \E k \in DOMAIN v.o : k \notin TagKeys
       \/ /\ Asserts(v.o, "M", "map[string]interface{}")
          /\ \E k \in DOMAIN v.o["M"].o : HasUnknownTag(v.o["M"].o[k])
       \/ /\ Asserts(v.o, "L", "[]interface{}")
          /\ \E i \in DOMAIN v.o["L"].a : HasUnknownTag(v.o["L"].a[i])

Malformed(cursor) ==
    \/ cursor.kind = "notBase64"
    \/ cursor.kind = "base64" /\ ~cursor.isJson
    \/ /\ cursor.kind = "base64"
       /\ cursor.isJson
       /\ cursor.doc.j = "map[string]interface{}"
       /\ \E key \in DOMAIN cursor.doc.o : HasUnknownTag(cursor.doc.o[key])

\* C10: decoding a non-empty cursor string returns either a resume point or a
\* decoding error, and it returns the decoding error when the string is not
\* base64, is not JSON, or holds a value object with an unrecognized tag key.
C10_MalformedIsAnError ==
    (cpc = "external" /\ cCursor.kind # "empty") =>
        /\ cDecoded.err \in { NoError, CursorDecodingError }
        /\ cDecoded.err = NoError => ~cDecoded.key.isNil
        /\ Malformed(cCursor) => cDecoded.err = CursorDecodingError

----------------------------------------------------------------------------
(* electrodb/params.go: BuildPutItemParams and the write pipeline          *)

\* attribute and field names of the put schema
AttrId     == <<"i","D">>
AttrMail   == <<"m">>
AttrStatus == <<"s">>
AttrNum    == <<"n">>
AttrSecret == <<"h">>
AttrOther  == <<"z">>
CreatedAt  == <<"c","A","t">>
UpdatedAt  == <<"u","A","t">>
FieldPk     == <<"p","k">>
FieldSk     == <<"s","k">>
FieldGsi1Pk == <<"g","1","p","k">>
FieldGsi1Sk == <<"g","1","s","k">>

\* an AttributeDefinition: Required, Default (a constant function), Validate,
\* Set, Padding.Length (0: no PaddingConfig), Hidden, EnumValues
AttributeDefinition(required, hasDefault, default, validate, set, padding, hidden, enum) ==
    [Required |-> required, HasDefault |-> hasDefault, Default |-> default,
     Validate |-> validate, Set |-> set, Padding |-> padding, Hidden |-> hidden,
     EnumValues |-> enum]

StatusOn == StrVal(<<"o","n">>)

\* Schema.Attributes: a required id; a required email with the validator and
\* the lower-casing Set of the validation tests (padded when padMail); an enum
\* with a default; a padded number; a hidden attribute
SchemaAttributes(padMail) ==
    (AttrId     :> AttributeDefinition(TRUE, FALSE, StatusOn, "none", "none", 0, FALSE, {}))
 @@ (AttrMail   :> AttributeDefinition(TRUE, FALSE, StatusOn, "email", "lower",
                                       IF padMail THEN 3 ELSE 0, FALSE, {}))
 @@ (AttrStatus :> AttributeDefinition(FALSE, TRUE, StatusOn, "none", "none", 0, FALSE,
                                       {StatusOn, StrVal(<<"o","f","f">>)}))
 @@ (AttrNum    :> AttributeDefinition(FALSE, FALSE, StatusOn, "none", "none", 3, FALSE, {}))
 @@ (AttrSecret :> AttributeDefinition(FALSE, FALSE, StatusOn, "none", "none", 0, TRUE, {}))

\* a FacetDefinition without casing
FacetDefinition(field, facets) ==
    [Field |-> field, Facets |-> facets, HasCasing |-> FALSE, Casing |-> <<>>]

\* an IndexDefinition; IsGsi is Index != nil, HasSK is SK != nil
IndexDefinition(isGsi, pk, hasSK, sk) ==
    [IsGsi |-> isGsi, PK |-> pk, HasSK |-> hasSK, SK |-> sk]

\* Schema.Indexes: the primary index on the id, and a secondary index whose
\* partition key is the status and whose sort key is the padded number
SchemaIndexes ==
    [primary |-> IndexDefinition(FALSE, FacetDefinition(FieldPk, <<AttrId>>),
                                 FALSE, FacetDefinition(FieldSk, <<>>)),
     gsi1    |-> IndexDefinition(TRUE, FacetDefinition(FieldGsi1Pk, <<AttrStatus>>),
                                 TRUE, FacetDefinition(FieldGsi1Sk, <<AttrNum>>))]

\* a Go map value held by the caller (caller) and the map a pipeline step
\* works on (work); alias says that both are the same map, so that a store
\* into the working map is a store into the caller's
Maps(caller, work, alias) == [caller |-> caller, work |-> work, alias |-> alias]

\* the copy left out: the result is the argument map itself
ShareItem(st) == st

\* result := make(Item); for k, v := range item { result[k] = v }
CopyItem(st) == Maps(st.caller, st.work, FALSE)

\* result[k] = v for every entry of m
StoreAll(st, m) ==
    Maps(IF st.alias THEN m @@ st.caller ELSE st.caller, m @@ st.work, st.alias)

\* validateRequiredAttributes
validateRequiredAttributes(item, attributes) ==
    IF \E name \in DOMAIN attributes :
          attributes[name].Required /\ name \notin DOMAIN item
    THEN "MissingAttribute"
    ELSE ""

\* the defaults stored by applyDefaults
DefaultsOf(item, attributes) ==
    [name \in { a \in DOMAIN attributes :
                  a \notin DOMAIN item /\ attributes[a].HasDefault }
       |-> attributes[name].Default]

\* the copy left out: defaults are stored into the argument map
applyDefaultsInPlace(st, attributes) ==
    StoreAll(st, DefaultsOf(st.work, attributes))

\* applyDefaults
applyDefaults(st, attributes) ==
    StoreAll(CopyItem(st), DefaultsOf(st.work, attributes))

\* time.Now().Unix()
Now == IntVal(99)

\* ApplyTimestamps(item, schema, false): the argument map itself when the
\* schema has no Timestamps
ApplyTimestamps(st, timestamps) ==
    IF ~timestamps THEN st
    ELSE StoreAll(StoreAll(CopyItem(st),
                           IF CreatedAt \in DOMAIN st.work THEN <<>>
                           ELSE (CreatedAt :> Now)),
                  (UpdatedAt :> Now))

\* strings.Repeat(padChar, padCount) with the default padChar "0"
Repeat0(n) == [i \in 1..n |-> "0"]

\* padValue with Char "" and Length length
padValue(value, length) ==
    IF length = 0 THEN value
    ELSE LET strValue == SprintV(value)
         IN IF Len(strValue) < length
            THEN StrVal(Repeat0(length - Len(strValue)) \o strValue)
            ELSE StrVal(strValue)

\* ApplyPadding
ApplyPadding(st, attributes) ==
    StoreAll(CopyItem(st),
             [name \in { a \in DOMAIN attributes :
                           attributes[a].Padding # 0 /\ a \in DOMAIN st.work }
                |-> padValue(st.work[name], attributes[name].Padding)])

\* the Validate functions of the catalog: "email" is the validator of the
\* tests (a string containing "@")
Rejects(validate, value) ==
    CASE validate = "none"  -> FALSE
      [] validate = "email" -> ~(value.t = "string" /\ ContainsSeq(value.s, <<"@">>))

\* the Set functions of the catalog: "lower" lower-cases a string
SetTransform(set, value) ==
    IF set = "lower" /\ value.t = "string" THEN StrVal(ToLower(value.s)) ELSE value

\* validateEnum
validateEnum(value, enumValues) ==
    IF value \in enumValues THEN "" ELSE "InvalidEnumValue"

\* the loop body of ValidateAndTransformForWrite for one attribute: the error
\* it returns, or ""
WriteError(name, value, attributes, isUpdate, readOnly) ==
    IF name \notin DOMAIN attributes THEN ""
    ELSE IF isUpdate /\ name \in readOnly THEN "ReadOnlyViolation"
    ELSE IF attributes[name].EnumValues # {}
            /\ validateEnum(value, attributes[name].EnumValues) # ""
         THEN "InvalidEnumValue"
    ELSE IF Rejects(attributes[name].Validate, value) THEN "ValidationError"
    ELSE ""

\* the errors ValidateAndTransformForWrite may return: the error of the first
\* failing attribute in the iteration order of the item, which Go leaves open
WriteErrors(item, attributes, isUpdate, readOnly) ==
    { WriteError(name, item[name], attributes, isUpdate, readOnly) :
        name \in DOMAIN item } \ {""}

\* the item ValidateAndTransformForWrite returns when no attribute fails
Transformed(st, attributes) ==
    Maps(st.caller,
         [name \in DOMAIN st.work |->
            IF name \in DOMAIN attributes
            THEN SetTransform(attributes[name].Set, st.work[name])
            ELSE st.work[name]],
         FALSE)

IndexNames == {"primary", "gsi1"}

\* the key fields one index adds in addKeysToItem
KeysOfIndex(index, item) ==
    LET pkKey == buildKey(index.PK, item)
        skKey == buildKeyWithType(index.SK, item, TRUE)
    IN IF index.HasSK /\ skKey.Fulfilled
       THEN (index.PK.Field :> StrVal(pkKey.Key)) @@ (index.SK.Field :> StrVal(skKey.Key))
       ELSE (index.PK.Field :> StrVal(pkKey.Key))

\* addKeysToItem: the key fields of every index, built from the argument item
addKeysToItem(st, indexes) ==
    StoreAll(CopyItem(st),
             KeysOfIndex(indexes.primary, st.work) @@ KeysOfIndex(indexes.gsi1, st.work))

\* attributevalue.MarshalMap
MarshalMap(item) == [name \in DOMAIN item |-> marshalValue(item[name])]

\* what BuildPutItemParams returns, and the caller's item after the call
PutResult(err, params, caller) == [err |-> err, params |-> params, caller |-> caller]

\* a nil params map
NilParams == [nil |-> TRUE]

\* the params map: TableName, Item, and ReturnValues when options.Response is set
PutParams(st, options) ==
    IF options.Response # ""
    THEN [TableName |-> "TestTable", Item |-> MarshalMap(st.work),
          ReturnValues |-> options.Response]
    ELSE [TableName |-> "TestTable", Item |-> MarshalMap(st.work)]

\* BuildPutItemParams after ApplyPadding returned st; err is the error chosen
\* among those ValidateAndTransformForWrite may return
PutValidated(st, schema, options, errs) ==
    IF errs # {}
    THEN { PutResult(e, NilParams, st.caller) : e \in errs }
    ELSE { PutResult("", PutParams(addKeysToItem(Transformed(st, schema.Attributes),
                                                 schema.Indexes), options),
                     st.caller) }

PutPadded(st, schema, options) ==
    PutValidated(st, schema, options,
                 WriteErrors(st.work, schema.Attributes, FALSE, {}))

\* BuildPutItemParams(item, options): the set of possible results
BuildPutItemParams(item, schema, options) ==
    IF validateRequiredAttributes(item, schema.Attributes) # ""
    THEN { PutResult("MissingAttribute", NilParams, item) }
    ELSE PutPadded(ApplyPadding(ApplyTimestamps(applyDefaults(Maps(item, item, TRUE),
                                                              schema.Attributes),
                                                schema.Timestamps),
                                schema.Attributes),
                   schema, options)

\* Entity.Create: a PutOperation whose condition is attribute_not_exists on
\* the first partition facet of Indexes["primary"]
Create(item, schema, options) ==
    [item    |-> item,
     options |-> options,
     conditionBuilder |->
        IF Len(schema.Indexes.primary.PK.Facets) > 0
        THEN Condition([atoms |-> << Atom("NotExists", schema.Indexes.primary.PK.Facets[1],
                                          IntVal(0), IntVal(0)) >>,
                        glue  |-> <<>>])
        ELSE NilBuilder]

\* PutOperation.Params
PutOperationParams(op, schema) == BuildPutItemParams(op.item, schema, op.options)

\* the nil *string of an unset PutItemInput field
NilString == <<"<","n","i","l",">">>

\* the dynamodb.PutItemInput ExecutePutItem fills from the params map
PutItemInput(params) ==
    [TableName                |-> params.TableName,
     Item                     |-> params.Item,
     ReturnValues             |-> IF "ReturnValues" \in DOMAIN params
                                  THEN params.ReturnValues ELSE "",
     ConditionExpression      |-> NilString,
     ExpressionAttributeNames |-> <<>>]

\* ExecutePutItem up to the PutItem call: the request sent, or the error
ExecutePutItem(item, schema, options) ==
    { IF r.err # "" THEN r ELSE PutResult("", PutItemInput(r.params), r.caller) :
        r \in BuildPutItemParams(item, schema, options) }

\* PutOperation.Go
PutOperationGo(op, schema) == ExecutePutItem(op.item, schema, op.options)

----------------------------------------------------------------------------
(* Inputs of the put builder                                               *)

MailValues == { StrVal(<<"a","@","B">>), StrVal(<<"a","b">>), IntVal(12) }

\* the values a caller may give each attribute of an item
PutValues ==
    (AttrId     :> { StrVal(<<"A","b">>) })
 @@ (AttrMail   :> MailValues)
 @@ (AttrStatus :> { StatusOn, StrVal(<<"x">>) })
 @@ (AttrNum    :> { IntVal(7) })
 @@ (AttrOther  :> { BoolVal(TRUE) })
 @@ (CreatedAt  :> { IntVal(5) })

PutItems ==
    UNION { { f \in [d -> UNION { PutValues[a] : a \in DOMAIN PutValues }] :
                \A a \in d : f[a] \in PutValues[a] } :
            d \in SUBSET DOMAIN PutValues }

PutSchemas ==
    { [Attributes |-> SchemaAttributes(padMail),
       Indexes    |-> SchemaIndexes,
       Timestamps |-> ts] : padMail \in BOOLEAN, ts \in BOOLEAN }

\* PutOptions: Response unset or "ALL_OLD"
PutOptionsSet == { [Response |-> r] : r \in {"", "ALL_OLD"} }

PutInit ==
    /\ pIn \in { [item |-> i, schema |-> s, options |-> o] :
                   i \in PutItems, s \in PutSchemas, o \in PutOptionsSet }
    /\ pOut = PutResult("", NilParams, pIn.item)
    /\ ppc = "ready"
    /\ KeyIdle
    /\ UpdIdle
    /\ ExprIdle
    /\ CurIdle
    /\ QryIdle
    /\ ReadIdle
    /\ EntIdle
    /\ LateIdle

\* one call of BuildPutItemParams
CallBuildPut ==
    /\ ppc = "ready"
    /\ pOut' \in BuildPutItemParams(pIn.item, pIn.schema, pIn.options)
    /\ ppc' = "built"
    /\ UNCHANGED pIn
    /\ UNCHANGED <<keyVars, updVars, exprVars, curVars, qryVars, readVars, entVars, lateVars>>

\* entity.Create(item).Params()
CreateParams ==
    /\ ppc = "ready"
    /\ pOut' \in PutOperationParams(Create(pIn.item, pIn.schema, pIn.options), pIn.schema)
    /\ ppc' = "params"
    /\ UNCHANGED pIn
    /\ UNCHANGED <<keyVars, updVars, exprVars, curVars, qryVars, readVars, entVars, lateVars>>

\* entity.Create(item).Go(), up to the request handed to the client
CreateGo ==
    /\ ppc = "ready"
    /\ pOut' \in PutOperationGo(Create(pIn.item, pIn.schema, pIn.options), pIn.schema)
    /\ ppc' = "sent"
    /\ UNCHANGED pIn
    /\ UNCHANGED <<keyVars, updVars, exprVars, curVars, qryVars, readVars, entVars, lateVars>>

PutNext == CallBuildPut \/ CreateParams \/ CreateGo

SpecPut == PutInit /\ [][PutNext]_vars

----------------------------------------------------------------------------
(* Properties of the put builder                                           *)

PutBuilt == ppc = "built"

RequiredMissing == AttrId \notin DOMAIN pIn.item \/ AttrMail \notin DOMAIN pIn.item

\* the required email is present and its validator rejects the value the
\* caller supplied; nothing else is wrong with the item
OnlyMailRejected ==
    /\ ~RequiredMissing
    /\ Rejects("email", pIn.item[AttrMail])
    /\ AttrStatus \in DOMAIN pIn.item
         => pIn.item[AttrStatus] \in pIn.schema.Attributes[AttrStatus].EnumValues

FailedWith(code) ==
    /\ pOut.err = code
    /\ pOut.params = NilParams
    /\ pOut.caller = pIn.item

CarriesNotExists(request) ==
    /\ "ConditionExpression" \in DOMAIN request
    /\ "ExpressionAttributeNames" \in DOMAIN request
    /\ \E ref \in DOMAIN request.ExpressionAttributeNames :
         /\ request.ConditionExpression = FunctionName("NotExists") \o <<"(">> \o ref \o <<")">>
         /\ request.ExpressionAttributeNames[ref]
              \in {FieldPk, pIn.schema.Indexes.primary.PK.Facets[1]}

\* C16: the put request that Create(item).Go() sends and that
\* Create(item).Params() returns carries the condition attribute_not_exists
\* on the partition-key attribute
C16_CreateCarriesNotExists ==
    (ppc \in {"params", "sent"} /\ pOut.err = "") => CarriesNotExists(pOut.params)

\* C17: on every successful BuildPutItemParams call the outgoing item carries,
\* for every index, the partition-key field and, where the index defines a
\* sort key, the sort-key field
C17_EveryIndexKeyAttached ==
    (PutBuilt /\ pOut.err = "") =>
       \A ix \in IndexNames :
          /\ pIn.schema.Indexes[ix].PK.Field \in DOMAIN pOut.params.Item
          /\ pIn.schema.Indexes[ix].HasSK
               => pIn.schema.Indexes[ix].SK.Field \in DOMAIN pOut.params.Item

----------------------------------------------------------------------------
(* electrodb/params.go: BuildGetItemParams over a schema, BuildQueryParams *)

\* the indexes without a secondary-index identifier; the loop of
\* BuildGetItemParams takes the first one in map iteration order
PrimaryIndexes(indexes) ==
    { indexes[n] : n \in { x \in DOMAIN indexes : ~indexes[x].IsGsi } }

\* BuildGetItemParams(keys, nil) on a schema: the possible results
BuildGetItemParamsIn(schema, keys) ==
    IF PrimaryIndexes(schema.Indexes) = {}
    THEN { [err |-> "InvalidSchema", Key |-> <<>>] }
    ELSE { GetItemParams(ix, keys) : ix \in PrimaryIndexes(schema.Indexes) }

\* facetsMap: the partition facets paired with pkFacets by position
FacetsMap(facets, pkFacets) ==
    [f \in { facets[i] : i \in 1..(IF Len(facets) < Len(pkFacets)
                                   THEN Len(facets) ELSE Len(pkFacets)) }
       |-> pkFacets[CHOOSE i \in 1..Len(facets) : facets[i] = f]]

\* the key condition and values of an explicit sort-key condition
ExplicitSortKey(skField, skCondition) ==
    CASE skCondition.operation \in { <<"=">>, <<">">>, <<">","=">>, <<"<">>, <<"<","=">> } ->
           [text   |-> <<" ","A","N","D"," ">> \o skField \o <<" ">> \o skCondition.operation \o <<" ",":","s","k">>,
            values |-> (<<":","s","k">> :> AvS(SprintV(skCondition.values[1])))]
      [] skCondition.operation = <<"B","E","T","W","E","E","N">> ->
           [text   |-> <<" ","A","N","D"," ">> \o skField \o <<" ","B","E","T","W","E","E","N"," ",":","s","k","1"," ","A","N","D"," ",":","s","k","2">>,
            values |-> (<<":","s","k","1">> :> AvS(SprintV(skCondition.values[1])))
                       @@ (<<":","s","k","2">> :> AvS(SprintV(skCondition.values[2])))]
      [] skCondition.operation = <<"b","e","g","i","n","s","_","w","i","t","h">> ->
           [text   |-> <<" ","A","N","D"," ","b","e","g","i","n","s","_","w","i","t","h","(">> \o skField \o <<","," ",":","s","k",")">>,
            values |-> (<<":","s","k">> :> AvS(SprintV(skCondition.values[1])))]

\* the default sort-key condition: the entity prefix and the first facet label
DefaultSortKey(schema, sk) ==
    [text   |-> <<" ","A","N","D"," ","b","e","g","i","n","s","_","w","i","t","h","(">> \o sk.Field \o <<","," ",":","s","k",")">>,
     values |-> (<<":","s","k">> :> AvS(IF Len(sk.Facets) > 0
                               THEN BuildSortKeyPrefix(schema.Entity, schema.Version)
                                      \o <<"#">> \o ToLower(sk.Facets[1]) \o <<"_">>
                               ELSE BuildSortKeyPrefix(schema.Entity, schema.Version)))]

\* the sort-key part of the key condition
SortKeyCondition(schema, index, skCondition) ==
    IF ~index.HasSK THEN [text |-> <<>>, values |-> <<>>]
    ELSE IF skCondition.given THEN ExplicitSortKey(index.SK.Field, skCondition)
    ELSE DefaultSortKey(schema, index.SK)

\* the entries IndexName, Limit and ScanIndexForward
QueryExtras(index, options) ==
    (IF index.IsGsi THEN [IndexName |-> index.Index] ELSE <<>>)
 @@ (IF options.given /\ options.Limit > 0 THEN [Limit |-> options.Limit] ELSE <<>>)
 @@ (IF options.given /\ options.Order = "desc" THEN [ScanIndexForward |-> FALSE] ELSE <<>>)

\* the entries added for a filter builder with a non-empty expression
QueryFilter(values, filterBuilder) ==
    IF filterBuilder = NilBuilder \/ filterBuilder.expression = <<>>
    THEN [ExpressionAttributeValues |-> values]
    ELSE LET merged == MergeExpressionAttributes(<<>>, values, filterBuilder.names,
                                                 filterBuilder.values)
         IN IF DOMAIN merged.names # {}
            THEN [FilterExpression          |-> filterBuilder.expression,
                  ExpressionAttributeNames  |-> merged.names,
                  ExpressionAttributeValues |-> merged.values]
            ELSE [FilterExpression          |-> filterBuilder.expression,
                  ExpressionAttributeValues |-> merged.values]

\* BuildQueryParams once the partition key pkKey is built
QueryParams(schema, index, pkKey, sk, options, filterBuilder) ==
    IF ~pkKey.Fulfilled
    THEN [err |-> "InvalidKeys", params |-> NilParams]
    ELSE [err    |-> "",
          params |-> [TableName |-> "TestTable",
                      KeyConditionExpression |-> index.PK.Field \o <<" ","="," ",":","p","k">> \o sk.text]
                     @@ QueryFilter((<<":","p","k">> :> AvS(pkKey.Key)) @@ sk.values, filterBuilder)
                     @@ QueryExtras(index, options)]

\* BuildQueryParams(indexName, pkFacets, skCondition, options, filterBuilder)
BuildQueryParams(schema, indexName, pkFacets, skCondition, options, filterBuilder) ==
    IF indexName \notin DOMAIN schema.Indexes
    THEN [err |-> "InvalidIndex", params |-> NilParams]
    ELSE QueryParams(schema, schema.Indexes[indexName],
                     buildKey(schema.Indexes[indexName].PK,
                              FacetsMap(schema.Indexes[indexName].PK.Facets, pkFacets)),
                     SortKeyCondition(schema, schema.Indexes[indexName], skCondition),
                     options, filterBuilder)

\* the sort key under which the params builder of another entity of the same
\* service stores an item: buildKeyWithType(sk, item, true) with that
\* entity's schema
StoredSortKey(entity, version, sk, item) ==
    MakeKey([Prefix           |-> BuildSortKeyPrefix(entity, version),
             IsCustom         |-> FALSE,
             ExcludeLabelTail |-> FALSE,
             HasCasing        |-> sk.HasCasing,
             Casing           |-> sk.Casing,
             HasPostfix       |-> FALSE,
             Postfix          |-> <<>>,
             ExcludePostfix   |-> FALSE],
            sk.Facets, item, BuildLabels(sk.Facets))

----------------------------------------------------------------------------
(* Inputs of the get and query builders                                    *)

AttrOk == <<"o","K">>

\* an IndexDefinition with the name of its secondary index
SecondaryIndex(name, pk, hasSK, sk) ==
    [IsGsi |-> TRUE, Index |-> name, PK |-> pk, HasSK |-> hasSK, SK |-> sk]

\* Schema.Indexes: a primary index with a sort key; secondary indexes without
\* a sort key, with a sort key of no facets, and with two facets in each key
QueryIndexes ==
    [primary |-> [IsGsi |-> FALSE, Index |-> "",
                  PK |-> FacetDefinition(FieldPk, <<AttrId>>),
                  HasSK |-> TRUE, SK |-> FacetDefinition(FieldSk, <<AttrMail>>)],
     bare    |-> SecondaryIndex("gsi0", FacetDefinition(<<"g","0","p","k">>, <<AttrOk>>),
                                FALSE, FacetDefinition(<<>>, <<>>)),
     flat    |-> SecondaryIndex("gsi1", FacetDefinition(FieldGsi1Pk, <<AttrId>>),
                                TRUE, FacetDefinition(FieldGsi1Sk, <<>>)),
     deep    |-> SecondaryIndex("gsi2", FacetDefinition(<<"g","2","p","k">>, <<AttrId, AttrMail>>),
                                TRUE, FacetDefinition(<<"g","2","s","k">>, <<AttrOk, AttrMail>>))]

QuerySchemas ==
    { [Entity |-> SchemaEntity, Version |-> v, Indexes |-> QueryIndexes] :
        v \in { <<>>, SchemaVersion } }

IndexNamesTried == { "primary", "bare", "flat", "deep", "missing" }

MaxPkFacets == 2

\* pkFacets: the values a caller passes by position
PkFacetLists ==
    UNION { [1..n -> { StrVal(<<"A","b">>), IntVal(12) }] : n \in 0..MaxPkFacets }

NoSortKeyCondition == [given |-> FALSE, operation |-> <<>>, values |-> <<>>]

SortKeyConditions ==
    { NoSortKeyCondition,
      [given |-> TRUE, operation |-> <<">","=">>, values |-> << StrVal(<<"b">>) >>],
      [given |-> TRUE, operation |-> <<"B","E","T","W","E","E","N">>, values |-> << IntVal(1), IntVal(9) >>],
      [given |-> TRUE, operation |-> <<"b","e","g","i","n","s","_","w","i","t","h">>, values |-> << StrVal(<<"$","x">>) >>] }

QueryOptionsSet ==
    { [given |-> FALSE, Limit |-> 0, Order |-> ""],
      [given |-> TRUE, Limit |-> 5, Order |-> "desc"] }

\* the filter builder handed over by the query chain: nil, or one Where call
QueryFilters ==
    { NilBuilder,
      BuildWhereExpression(NewExpressionBuilder,
                           [atoms |-> << Atom("Eq", "name", StrVal(<<"x">>), IntVal(0)) >>,
                            glue  |-> <<>>]) }

\* the keys passed to BuildGetItemParams
GetKeys ==
    UNION { [d -> { StrVal(<<"A","b">>) }] : d \in SUBSET {AttrId, AttrMail} }

\* other entity types of the same service, and the attributes of their items
OtherEntities ==
    { [Entity |-> e, Version |-> v] :
        e \in { <<"E","n","t","2">>, <<"F","o","o">> }, v \in { <<>>, SchemaVersion } }

OtherItem == (AttrOk :> BoolVal(TRUE)) @@ (AttrMail :> StrVal(<<"a","@","B">>))

QryInit ==
    /\ yIn \in { [schema |-> s, indexName |-> n, pkFacets |-> p, skCondition |-> c,
                  options |-> o, filterBuilder |-> f, keys |-> k, other |-> e] :
                   s \in QuerySchemas, n \in IndexNamesTried, p \in PkFacetLists,
                   c \in SortKeyConditions, o \in QueryOptionsSet, f \in QueryFilters,
                   k \in GetKeys, e \in OtherEntities }
    /\ yOut = [err |-> "", params |-> NilParams]
    /\ ypc = "ready"
    /\ KeyIdle
    /\ UpdIdle
    /\ ExprIdle
    /\ CurIdle
    /\ PutIdle
    /\ ReadIdle
    /\ EntIdle
    /\ LateIdle

\* the result of BuildGetItemParams as (err, params)
GetResult(r) ==
    IF r.err # "" THEN [err |-> r.err, params |-> NilParams]
    ELSE [err |-> "", params |-> [TableName |-> "TestTable", Key |-> r.Key]]

\* one call of BuildGetItemParams
CallBuildGet ==
    /\ ypc = "ready"
    /\ \E r \in BuildGetItemParamsIn(yIn.schema, yIn.keys) : yOut' = GetResult(r)
    /\ ypc' = "get"
    /\ UNCHANGED yIn
    /\ UNCHANGED <<keyVars, updVars, exprVars, curVars, putVars, readVars, entVars, lateVars>>

\* one call of BuildQueryParams
CallBuildQuery ==
    /\ ypc = "ready"
    /\ yOut' = BuildQueryParams(yIn.schema, yIn.indexName, yIn.pkFacets,
                                yIn.skCondition, yIn.options, yIn.filterBuilder)
    /\ ypc' = "query"
    /\ UNCHANGED yIn
    /\ UNCHANGED <<keyVars, updVars, exprVars, curVars, putVars, readVars, entVars, lateVars>>

QryNext == CallBuildGet \/ CallBuildQuery

SpecQuery == QryInit /\ [][QryNext]_vars

----------------------------------------------------------------------------
(* Properties of the get and query builders                                *)

QueryIndex == yIn.schema.Indexes[yIn.indexName]

\* a query was built on an index with a sort key and without a sort-key
\* condition of the caller
DefaultQueryBuilt ==
    /\ ypc = "query"
    /\ yOut.err = ""
    /\ QueryIndex.HasSK
    /\ ~yIn.skCondition.given

OwnPrefix == BuildSortKeyPrefix(yIn.schema.Entity, yIn.schema.Version)

ExpectedBeginsWith ==
    IF Len(QueryIndex.SK.Facets) > 0
    THEN OwnPrefix \o <<"#">> \o ToLower(QueryIndex.SK.Facets[1]) \o <<"_">>
    ELSE OwnPrefix

\* C12: a query built without a sort-key condition on an index with a sort
\* key carries begins_with on the sort-key field with the entity's own
\* sort-key prefix plus the first sort facet's label, and no item of another
\* entity type under the same partition key matches that predicate
C12_DefaultPrefixIsolates ==
    DefaultQueryBuilt =>
       /\ yOut.params.KeyConditionExpression =
             QueryIndex.PK.Field \o <<" ","="," ",":","p","k"," ","A","N","D"," ","b","e","g","i","n","s","_","w","i","t","h","(">>
                \o QueryIndex.SK.Field \o <<","," ",":","s","k",")">>
       /\ yOut.params.ExpressionAttributeValues[<<":","s","k">>] = AvS(ExpectedBeginsWith)
       /\ ~HasPrefix(StoredSortKey(yIn.other.Entity, yIn.other.Version,
                                   QueryIndex.SK, OtherItem).Key,
                     yOut.params.ExpressionAttributeValues[<<":","s","k">>].s)

GetIncomplete ==
    \E ix \in PrimaryIndexes(yIn.schema.Indexes) :
       \/ \E i \in 1..Len(ix.PK.Facets) : ix.PK.Facets[i] \notin DOMAIN yIn.keys
       \/ ix.HasSK /\ \E i \in 1..Len(ix.SK.Facets) : ix.SK.Facets[i] \notin DOMAIN yIn.keys

QueryIncomplete ==
    /\ yIn.indexName \in DOMAIN yIn.schema.Indexes
    /\ Len(yIn.pkFacets) < Len(QueryIndex.PK.Facets)

Refused(code) == yOut.err = code /\ yOut.params = NilParams

\* C18: BuildGetItemParams fails with InvalidKeys when the supplied facets do
\* not fulfil the primary index's partition key or sort key, BuildQueryParams
\* fails with InvalidKeys when the partition facets of the target index are
\* not all supplied, and neither returns params then
C18_NoRequestFromIncompleteKey ==
    /\ (ypc = "get" /\ GetIncomplete) => Refused("InvalidKeys")
    /\ (ypc = "query" /\ QueryIncomplete) => Refused("InvalidKeys")

\* a get refused for its missing sort facet alone
C18_Witness ==
    /\ ypc = "get"
    /\ AttrId \in DOMAIN yIn.keys
    /\ AttrMail \notin DOMAIN yIn.keys
    /\ Refused("InvalidKeys")

----------------------------------------------------------------------------
(* BuildUpdateItemParams on a catalog with read-only and validated         *)
(* attributes                                                              *)

MaxGuardOps == 2

\* the values of an update on the guarded catalog: assignments, additions and
\* deletions may carry a value the attribute's enum or validator rejects
GuardValues(slot) ==
    CASE slot[1] = "data" -> {IntsVal(<<0>>)}
      [] slot[1] = "rem"  -> {PlainVal}
      [] slot[1] \in {"set", "add", "del"} -> {PlainVal, InvalidVal}
      [] OTHER            -> {PlainVal}

ReadOnlySets == { {}, {"c"}, {"a", "c"} }

FulfilledKeys == (<<"i","D">> :> StrVal(<<"A","b">>))

GuardInit ==
    /\ \E S \in SubsetsUpTo(Slots, MaxGuardOps) :
       \E f \in { g \in [S -> ValueUniverse \cup {InvalidVal}] :
                    \A x \in S : g[x] \in GuardValues(x) } :
       \E rem \in Orders(BucketOf(S, f, "rem")) :
       \E ro \in ReadOnlySets, ts \in BOOLEAN :
          uIn = [keys       |-> FulfilledKeys,
                 timestamps |-> ts,
                 readOnly   |-> ro,
                 response   |-> "",
                 set  |-> BucketOf(S, f, "set"),
                 add  |-> BucketOf(S, f, "add"),
                 del  |-> BucketOf(S, f, "del"),
                 rem  |-> rem,
                 app  |-> BucketOf(S, f, "app"),
                 pre  |-> BucketOf(S, f, "pre"),
                 sub  |-> BucketOf(S, f, "sub"),
                 data |-> BucketOf(S, f, "data")]
    /\ uOut = NoParams("")
    /\ upc = "ready"
    /\ KeyIdle
    /\ ExprIdle
    /\ CurIdle
    /\ PutIdle
    /\ QryIdle
    /\ ReadIdle
    /\ EntIdle
    /\ LateIdle

SpecGuard == GuardInit /\ [][UpdNext]_vars

UpdDone == upc = "done"

\* the attributes an update targets in any of its buckets
Targets ==
    DOMAIN uIn.set \cup DOMAIN uIn.add \cup DOMAIN uIn.del \cup RemSet
      \cup DOMAIN uIn.app \cup DOMAIN uIn.pre \cup DOMAIN uIn.sub \cup DOMAIN uIn.data

\* C13: BuildUpdateItemParams fails with a read-only violation whenever a
\* read-only attribute is the target of an operation in any bucket: assign,
\* add, subtract, append, prepend, set-delete, remove or data
C13_ReadOnlyEveryBucket ==
    (UpdDone /\ Targets \cap uIn.readOnly # {}) =>
       /\ uOut.err = "ReadOnlyViolation"
       /\ uOut.UpdateExpression = <<>>

\* the attributes whose assigned value their enum or validator rejects
RejectedAssignments ==
    { n \in DOMAIN uIn.set :
        /\ n \in DOMAIN UpdateCatalog
        /\ UpdateCatalog[n].Enum \/ UpdateCatalog[n].Validate
        /\ ~UpdateCatalog[n].Set
        /\ Violates(uIn.set[n]) }

\* C14: when an assigned value violates the attribute's enum or validator,
\* BuildUpdateItemParams returns that validation error and no params, and the
\* value is not among the ExpressionAttributeValues
C14_InvalidAssignmentRefused ==
    (UpdDone /\ RejectedAssignments # {} /\ Targets \cap uIn.readOnly = {}) =>
       /\ uOut.err \in {"InvalidEnumValue", "ValidationError"}
       /\ uOut.UpdateExpression = <<>>
       /\ \A ref \in DOMAIN uOut.ExpressionAttributeValues :
             ~Violates(uOut.ExpressionAttributeValues[ref])

----------------------------------------------------------------------------
(* The read paths: what each hands to the caller from a stored item        *)

\* the catalog of the entity read: the put catalog, whose attribute "h" is
\* Hidden; no attribute has a Get function
ReadAttributes == SchemaAttributes(FALSE)

\* removeInternalKeys: the attributes of the catalog that the item has
removeInternalKeys(item) ==
    IF item.isNil THEN NilKeyMap
    ELSE KeyMap(FALSE, [name \in DOMAIN ReadAttributes \cap DOMAIN item.m |-> item.m[name]])

\* TransformForRead: hidden attributes are skipped, unknown ones pass through
TransformForRead(item) ==
    IF item.isNil THEN NilKeyMap
    ELSE KeyMap(FALSE,
                [name \in { n \in DOMAIN item.m :
                              n \in DOMAIN ReadAttributes => ~ReadAttributes[n].Hidden }
                   |-> item.m[name]])

\* the end of ExecuteGetItem, ExecutePutItem, ExecuteUpdateItem,
\* ExecuteDeleteItem, ExecuteQuery and ExecuteScan
ParseResponse(item, options) ==
    IF ~options.given \/ ~options.Raw
    THEN TransformForRead(removeInternalKeys(item))
    ELSE item

\* BatchGetRequest.executeBatch: the parsed item appended to Data
BatchParsed(item) == removeInternalKeys(item)

\* TransactGetBuilder.GoWithContext: the unmarshalled item of a response
TransactParsed(item) == item

ExecutionPaths == { "get", "put", "update", "delete", "query", "scan" }

\* the items the table returns: attributes of the catalog, the key field, an
\* attribute unknown to the catalog; or no item
StoredItems ==
    { NilKeyMap } \cup
    { KeyMap(FALSE, [n \in d |-> StrVal(n)]) :
        d \in SUBSET { AttrId, AttrMail, AttrSecret, AttrOther, FieldPk } }

ReadOptionsSet ==
    { [given |-> FALSE, Raw |-> FALSE], [given |-> TRUE, Raw |-> FALSE],
      [given |-> TRUE, Raw |-> TRUE] }

ReadInit ==
    /\ rIn \in { [item |-> i, options |-> o] : i \in StoredItems, o \in ReadOptionsSet }
    /\ rOut = NilKeyMap
    /\ rpc = "ready"
    /\ KeyIdle
    /\ UpdIdle
    /\ ExprIdle
    /\ CurIdle
    /\ PutIdle
    /\ QryIdle
    /\ EntIdle
    /\ LateIdle

\* a read or returned image through the execution helper
ExecuteRead ==
    /\ rpc = "ready"
    /\ rpc' \in ExecutionPaths
    /\ rOut' = ParseResponse(rIn.item, rIn.options)
    /\ UNCHANGED rIn
    /\ UNCHANGED <<keyVars, updVars, exprVars, curVars, putVars, qryVars, entVars, lateVars>>

\* entity.BatchGet(keys).Go()
BatchGet ==
    /\ rpc = "ready"
    /\ rpc' = "batchGet"
    /\ rOut' = BatchParsed(rIn.item)
    /\ UNCHANGED rIn
    /\ UNCHANGED <<keyVars, updVars, exprVars, curVars, putVars, qryVars, entVars, lateVars>>

\* service.TransactGet(...).Go()
TransactGet ==
    /\ rpc = "ready"
    /\ rpc' = "transactGet"
    /\ rOut' = TransactParsed(rIn.item)
    /\ UNCHANGED rIn
    /\ UNCHANGED <<keyVars, updVars, exprVars, curVars, putVars, qryVars, entVars, lateVars>>

ReadNext == ExecuteRead \/ BatchGet \/ TransactGet

SpecRead == ReadInit /\ [][ReadNext]_vars

\* C15: no item returned to the caller by any read path, under any options,
\* contains an attribute declared Hidden
C15_HiddenNeverReturned ==
    (rpc # "ready" /\ ~rOut.isNil) =>
       \A n \in DOMAIN rOut.m :
          n \in DOMAIN ReadAttributes => ~ReadAttributes[n].Hidden

----------------------------------------------------------------------------
(* NewEntity, validateSchema, and the primary index the key operations     *)
(* locate                                                                  *)

\* validateSchema: the error code, or ""
validateSchema(schema) ==
    IF schema.Service = <<>> THEN "InvalidSchema"
    ELSE IF schema.Entity = <<>> THEN "InvalidSchema"
    ELSE IF schema.Table = <<>> THEN "InvalidSchema"
    ELSE IF schema.Attributes = {} THEN "InvalidSchema"
    ELSE IF DOMAIN schema.Indexes = {} THEN "InvalidSchema"
    ELSE IF \E n \in DOMAIN schema.Indexes :
               \/ \E i \in 1..Len(schema.Indexes[n].PK.Facets) :
                     schema.Indexes[n].PK.Facets[i] \notin schema.Attributes
               \/ /\ schema.Indexes[n].HasSK
                  /\ \E i \in 1..Len(schema.Indexes[n].SK.Facets) :
                        schema.Indexes[n].SK.Facets[i] \notin schema.Attributes
         THEN "InvalidSchema"
    ELSE ""

\* NewEntity(schema, nil): the error code, or ""
NewEntity(schema) == validateSchema(schema)

\* the partition-key field of the index that the loop at the head of
\* BuildGetItemParams (and so update and delete) may find; <<>> when it finds
\* none and returns InvalidSchema
LocatedPrimary(indexes) ==
    IF PrimaryIndexes(indexes) = {} THEN { <<>> }
    ELSE { ix.PK.Field : ix \in PrimaryIndexes(indexes) }

MaxLocates == 2

\* the index definitions a schema may declare under each access pattern, as
\* primary (Index nil) or secondary
IndexChoices(name) ==
    CASE name = "first"  ->
           { [IsGsi |-> g, PK |-> FacetDefinition(FieldPk, <<AttrId>>),
              HasSK |-> FALSE, SK |-> FacetDefinition(<<>>, <<>>)] : g \in BOOLEAN }
      [] name = "second" ->
           { [IsGsi |-> g, PK |-> FacetDefinition(FieldGsi1Pk, <<AttrMail>>),
              HasSK |-> FALSE, SK |-> FacetDefinition(<<>>, <<>>)] : g \in BOOLEAN }
      [] name = "third"  ->
           { [IsGsi |-> g, PK |-> FacetDefinition(<<"g","2","p","k">>, <<AttrId>>),
              HasSK |-> TRUE, SK |-> FacetDefinition(<<"g","2","s","k">>, <<AttrOk>>)] : g \in BOOLEAN }

AccessPatterns == { "first", "second", "third" }

IndexMaps ==
    UNION { { f \in [d -> UNION { IndexChoices(n) : n \in AccessPatterns }] :
                \A n \in d : f[n] \in IndexChoices(n) } :
            d \in SUBSET AccessPatterns }

EntitySchemas ==
    { [Service |-> s, Entity |-> e, Table |-> t, Attributes |-> a, Indexes |-> ix] :
        s \in { <<>>, SchemaService }, e \in { <<>>, SchemaEntity },
        t \in { <<>>, <<"T","e","s","t","T","a","b","l","e">> },
        a \in { {}, {AttrId, AttrMail}, {AttrId, AttrMail, AttrOk} },
        ix \in IndexMaps }

EntInit ==
    /\ eIn \in EntitySchemas
    /\ eOut = [err |-> "", located |-> <<>>]
    /\ epc = "ready"
    /\ KeyIdle
    /\ UpdIdle
    /\ ExprIdle
    /\ CurIdle
    /\ PutIdle
    /\ QryIdle
    /\ ReadIdle
    /\ LateIdle

\* NewEntity(schema, nil)
CallNewEntity ==
    /\ epc = "ready"
    /\ eOut' = [err |-> NewEntity(eIn), located |-> <<>>]
    /\ epc' = "constructed"
    /\ UNCHANGED eIn
    /\ UNCHANGED <<keyVars, updVars, exprVars, curVars, putVars, qryVars, readVars, lateVars>>

\* a get, update or delete on the accepted entity locates its primary index
LocatePrimary ==
    /\ epc \in {"constructed", "located"}
    /\ eOut.err = ""
    /\ Len(eOut.located) < MaxLocates
    /\ \E field \in LocatedPrimary(eIn.Indexes) :
          eOut' = [eOut EXCEPT !.located = Append(@, field)]
    /\ epc' = "located"
    /\ UNCHANGED eIn
    /\ UNCHANGED <<keyVars, updVars, exprVars, curVars, putVars, qryVars, readVars, lateVars>>

EntNext == CallNewEntity \/ LocatePrimary

SpecEntity == EntInit /\ [][EntNext]_vars

Accepted == epc # "ready" /\ eOut.err = ""

\* C19: every entity accepted by NewEntity has exactly one index definition
\* without a secondary-index identifier, and every get, update or delete
\* locates that same index
C19_ExactlyOnePrimary ==
    Accepted =>
       /\ Cardinality({ n \in DOMAIN eIn.Indexes : ~eIn.Indexes[n].IsGsi }) = 1
       /\ \A i, j \in DOMAIN eOut.located :
             eOut.located[i] # <<>> /\ eOut.located[i] = eOut.located[j]

----------------------------------------------------------------------------
(* The meaning of a filter expression: DynamoDB reads parentheses first,   *)
(* then BETWEEN ... AND ..., then AND, then OR                             *)

\* how many parentheses are open before position i of t
Depth(t, i) ==
    Cardinality({ j \in 1..(i - 1) : t[j] = "(" })
      - Cardinality({ j \in 1..(i - 1) : t[j] = ")" })

\* the positions where sep occurs in t outside every pair of parentheses
Occurrences(t, sep) ==
    { i \in 1..(Len(t) - Len(sep) + 1) :
        SubSeq(t, i, i + Len(sep) - 1) = sep /\ Depth(t, i) = 0 }

\* the piece of t from position start up to the next of the positions seps
PieceFrom(t, seps, start) ==
    IF \E p \in seps : p >= start
    THEN SubSeq(t, start,
                (CHOOSE p \in seps :
                    p >= start /\ \A q \in seps : q >= start => p <= q) - 1)
    ELSE SubSeq(t, start, Len(t))

\* the pieces of t between separators of length n at the positions seps
Pieces(t, seps, n) ==
    { PieceFrom(t, seps, start) : start \in {1} \cup { p + n : p \in seps } }

\* the piece of t that ends at the separator at p
PieceBefore(t, seps, n, p) ==
    IF \E q \in seps : q < p
    THEN SubSeq(t, (CHOOSE q \in seps :
                       q < p /\ \A r \in seps : r < p => r <= q) + n, p - 1)
    ELSE SubSeq(t, 1, p - 1)

KwOr == <<" ","O","R"," ">>
KwAnd == <<" ","A","N","D"," ">>
KwBetween == <<" ","B","E","T","W","E","E","N"," ">>

\* the AND that follows a BETWEEN belongs to the BETWEEN
Conjunctions(t) ==
    { p \in Occurrences(t, KwAnd) :
        Occurrences(PieceBefore(t, Occurrences(t, KwAnd), Len(KwAnd), p),
                    KwBetween) = {} }

Parenthesized(t) == Len(t) >= 2 /\ t[1] = "(" /\ t[Len(t)] = ")"

RECURSIVE Truth(_, _)
\* whether expression t holds when exactly the comparisons in holds hold
Truth(t, holds) ==
    IF Occurrences(t, KwOr) # {}
    THEN \E p \in Pieces(t, Occurrences(t, KwOr), Len(KwOr)) : Truth(p, holds)
    ELSE IF Conjunctions(t) # {}
    THEN \A p \in Pieces(t, Conjunctions(t), Len(KwAnd)) : Truth(p, holds)
    ELSE IF Parenthesized(t) THEN Truth(SubSeq(t, 2, Len(t) - 1), holds)
    ELSE t \in holds

RECURSIVE Comparisons(_)
\* the comparisons and function calls an expression is made of
Comparisons(t) ==
    IF Occurrences(t, KwOr) # {}
    THEN UNION { Comparisons(p) : p \in Pieces(t, Occurrences(t, KwOr), Len(KwOr)) }
    ELSE IF Conjunctions(t) # {}
    THEN UNION { Comparisons(p) : p \in Pieces(t, Conjunctions(t), Len(KwAnd)) }
    ELSE IF Parenthesized(t) THEN Comparisons(SubSeq(t, 2, Len(t) - 1))
    ELSE { t }

\* a Where or Filter call joined a fragment to the filter of earlier calls,
\* none of them empty
ChainJoined ==
    /\ qcLocal.merged
    /\ <<>> \notin Comparisons(qcLocal.existingExpr)
    /\ <<>> \notin Comparisons(qcLocal.fb.expression)

\* the joined text means the conjunction of what it was joined from
JoinIsConjunction(existing, new, combined) ==
    \A holds \in SUBSET (Comparisons(existing) \cup Comparisons(new)) :
       Truth(combined, holds) <=> (Truth(existing, holds) /\ Truth(new, holds))

\* FilterBuilder.Where(cb) called on a builder that already holds the text
\* of an earlier callback: AddExpression joins the two
SecondFragmentIsConjunction(fb, cb) ==
    RunCallback(fb, cb, 1, <<>>).text # <<>> =>
       JoinIsConjunction(fb.expression, RunCallback(fb, cb, 1, <<>>).text,
                         BuildWhereExpression(fb, cb).expression)

\* a builder holds the text of exactly one callback
FirstFragmentBuilt ==
    /\ qcCalls = 1
    /\ qcLocal.fb # NilBuilder
    /\ qcLocal.fb.expression # <<>>

\* C20: AND-combination keeps the meaning of a conjunction: the filter left
\* by successive Where/Filter calls on a query chain means the filter before
\* the call and the fragment of the call, and the text left by a second
\* AddExpression on one builder means both of its fragments, even when a
\* fragment contains OR
C20_AndIsConjunction ==
    /\ ChainJoined =>
          JoinIsConjunction(qcLocal.existingExpr, qcLocal.fb.expression,
                            qcFilter.expression)
    /\ FirstFragmentBuilt =>
          \A cb \in Callbacks : SecondFragmentIsConjunction(qcLocal.fb, cb)

\* the part of C20 about one builder
AddExpressionIsConjunction ==
    FirstFragmentBuilt =>
       \A cb \in Callbacks : SecondFragmentIsConjunction(qcLocal.fb, cb)

\* the chain's join holds as long as no fragment contains OR
ChainIsConjunctionWithoutOr ==
    (/\ ChainJoined
     /\ Occurrences(qcLocal.existingExpr, KwOr) = {}
     /\ Occurrences(qcLocal.fb.expression, KwOr) = {}) =>
       JoinIsConjunction(qcLocal.existingExpr, qcLocal.fb.expression,
                         qcFilter.expression)

----------------------------------------------------------------------------
(* An attribute targeted by two buckets of one update                      *)

\* the buckets of the update that target attribute a
BucketsTargeting(a) ==
    { b \in Buckets :
        IF b = "rem" THEN a \in RemSet ELSE a \in DOMAIN uIn[b] }

\* some attribute is the target of two different buckets
TargetedTwice == \E a \in UpdateAttrs : Cardinality(BucketsTargeting(a)) >= 2

\* C21: an update in which one attribute is targeted by two different
\* buckets is rejected by BuildUpdateItemParams: it returns an error and no
\* update expression
C21_TwoBucketsRejected ==
    (UpdDone /\ TargetedTwice) =>
       /\ uOut.err # ""
       /\ uOut.UpdateExpression = <<>>

----------------------------------------------------------------------------
(* Attributes unknown to the catalog                                       *)

\* the stored item holds the attribute that the catalog does not declare
StoredUnknown == ~rIn.item.isNil /\ AttrOther \in DOMAIN rIn.item.m

\* C22 (read direction): an attribute of the stored item that the catalog
\* does not declare is in the item returned to the caller, with its stored
\* value
C22_UnknownPassesOnRead ==
    (rpc # "ready" /\ StoredUnknown) =>
       /\ ~rOut.isNil
       /\ AttrOther \in DOMAIN rOut.m
       /\ rOut.m[AttrOther] = rIn.item.m[AttrOther]

\* the write direction: the outgoing item of a successful BuildPutItemParams
\* carries the undeclared attribute with the caller's value
UnknownPassesOnWrite ==
    (PutBuilt /\ pOut.err = "" /\ AttrOther \in DOMAIN pIn.item) =>
       /\ AttrOther \in DOMAIN pOut.params.Item
       /\ pOut.params.Item[AttrOther] = marshalValue(pIn.item[AttrOther])

----------------------------------------------------------------------------
(* A written item read back: BuildPutItemParams, the table, ExecuteGetItem *)

DigitValue(c) == CHOOSE d \in 0..9 : Digits[d + 1] = c

RECURSIVE ParseFloat(_)
\* the number a DynamoDB N text of digits stands for
ParseFloat(s) ==
    IF Len(s) = 0 THEN 0
    ELSE 10 * ParseFloat(SubSeq(s, 1, Len(s) - 1)) + DigitValue(s[Len(s)])

\* attributevalue.UnmarshalMap into map[string]interface{}: S gives a string,
\* N a float64, BOOL a bool
UnmarshalValue(av) ==
    CASE av.t = "S"    -> StrVal(av.s)
      [] av.t = "N"    -> [t |-> "float64", s |-> <<>>, b |-> FALSE, n |-> ParseFloat(av.s)]
      [] av.t = "BOOL" -> BoolVal(av.b)

UnmarshalMap(item) ==
    KeyMap(FALSE, [name \in DOMAIN item |-> UnmarshalValue(item[name])])

NotRead == [item |-> NilKeyMap, options |-> [given |-> FALSE, Raw |-> FALSE]]

RoundTripInit ==
    /\ pIn \in { [item |-> i, schema |-> s, options |-> o] :
                   i \in PutItems, s \in PutSchemas, o \in PutOptionsSet }
    /\ pOut = PutResult("", NilParams, pIn.item)
    /\ ppc = "ready"
    /\ rIn = NotRead
    /\ rOut = NilKeyMap
    /\ rpc = "ready"
    /\ KeyIdle
    /\ UpdIdle
    /\ ExprIdle
    /\ CurIdle
    /\ QryIdle
    /\ EntIdle
    /\ LateIdle

\* ExecuteGetItem on the item that the put request stored
ReadBack ==
    /\ ppc = "built"
    /\ pOut.err = ""
    /\ rpc = "ready"
    /\ \E o \in ReadOptionsSet :
          /\ rIn' = [item |-> UnmarshalMap(pOut.params.Item), options |-> o]
          /\ rOut' = ParseResponse(UnmarshalMap(pOut.params.Item), o)
    /\ rpc' = "get"
    /\ UNCHANGED putVars
    /\ UNCHANGED <<keyVars, updVars, exprVars, curVars, qryVars, entVars, lateVars>>

RoundTripNext == CallBuildPut \/ ReadBack

SpecRoundTrip == RoundTripInit /\ [][RoundTripNext]_vars

\* the caller wrote a number to the padded attribute
WrotePaddedNumber ==
    /\ AttrNum \in DOMAIN pIn.item
    /\ pIn.item[AttrNum].t = "int"
    /\ pIn.schema.Attributes[AttrNum].Padding # 0

\* the number is stored as padded text
StoredPadded ==
    (ppc = "built" /\ pOut.err = "" /\ WrotePaddedNumber) =>
       pOut.params.Item[AttrNum] =
          AvS(padValue(pIn.item[AttrNum], pIn.schema.Attributes[AttrNum].Padding).s)

\* C23: a number written through Put to an attribute with a padding
\* configuration is stored padded, and reading the item back returns the
\* number that was written
C23_PaddedNumberReadBack ==
    /\ StoredPadded
    /\ (rpc = "get" /\ WrotePaddedNumber) =>
          /\ ~rOut.isNil
          /\ AttrNum \in DOMAIN rOut.m
          /\ rOut.m[AttrNum].t \in {"int", "float64"}
          /\ rOut.m[AttrNum].n = pIn.item[AttrNum].n

----------------------------------------------------------------------------
(* electrodb batch operations: BatchGetRequest.Go, BatchWriteRequest.Go    *)

MaxBatchGetItems == 100

MaxBatchWriteItems == 25

\* the largest batches tried
MaxKeys == 205

MaxWrites == 27

\* keys[i:end] of the Go slice, i counted from 0
Slice(s, i, end) == SubSeq(s, i + 1, end)

\* the requested keys and write operations are told apart by their position
\* in the request
Requested(n) == [i \in 1..n |-> i]

RECURSIVE Flatten(_)
Flatten(chunks) ==
    IF Len(chunks) = 0 THEN <<>> ELSE chunks[1] \o Flatten(Tail(chunks))

NoBatch == [sent |-> <<>>, i |-> 0, err |-> "", returned |-> FALSE]

\* a batch of n keys or operations, of which the one at position bad (none
\* when 0) is refused by BuildGetItemParams or BuildPutItemParams
BatchInputs ==
    { [op |-> "get", ops |-> Requested(n), bad |-> b] :
        n \in 0..MaxKeys, b \in {0, MaxKeys} }
    \cup
    { [op |-> "write", ops |-> Requested(n), bad |-> b] :
        n \in 0..MaxWrites, b \in {0, MaxWrites} }

BatInit ==
    /\ bIn \in BatchInputs
    /\ bOut = NoBatch
    /\ bpc = "ready"
    /\ CoreIdle
    /\ PageIdle
    /\ SvcIdle
    /\ ConIdle
    /\ BldIdle

\* the end of the batch that starts at i
BatchEnd(i, n) == IF i + MaxBatchGetItems > n THEN n ELSE i + MaxBatchGetItems

\* BatchGetRequest.Go up to its loop: an empty request returns at once
BatchGetGo ==
    /\ bpc = "ready"
    /\ bIn.op = "get"
    /\ IF Len(bIn.ops) = 0
       THEN /\ bOut' = [bOut EXCEPT !.returned = TRUE]
            /\ bpc' = "done"
       ELSE /\ bOut' = bOut
            /\ bpc' = "looping"
    /\ UNCHANGED bIn
    /\ UNCHANGED <<coreVars, pageVars, svcVars, conVars, bldVars>>

\* one turn of the loop: executeBatch on keys[i:end]; a key refused by
\* BuildGetItemParams or a failure of the store ends Go with the error
BatchGetChunk ==
    /\ bpc = "looping"
    /\ bOut.i < Len(bIn.ops)
    /\ \E storeFails \in BOOLEAN :
         IF bIn.bad \in (bOut.i + 1)..BatchEnd(bOut.i, Len(bIn.ops))
         THEN /\ bOut' = [bOut EXCEPT !.err = "InvalidKeys", !.returned = TRUE]
              /\ bpc' = "done"
         ELSE IF storeFails
         THEN /\ bOut' = [bOut EXCEPT
                            !.sent = Append(@, Slice(bIn.ops, bOut.i,
                                                BatchEnd(bOut.i, Len(bIn.ops)))),
                            !.err = "DynamoDBError", !.returned = TRUE]
              /\ bpc' = "done"
         ELSE /\ bOut' = [bOut EXCEPT
                            !.sent = Append(@, Slice(bIn.ops, bOut.i,
                                                BatchEnd(bOut.i, Len(bIn.ops)))),
                            !.i = @ + MaxBatchGetItems]
              /\ bpc' = "looping"
    /\ UNCHANGED bIn
    /\ UNCHANGED <<coreVars, pageVars, svcVars, conVars, bldVars>>

\* the loop condition fails: Go returns the collected result
BatchGetReturn ==
    /\ bpc = "looping"
    /\ bOut.i >= Len(bIn.ops)
    /\ bOut' = [bOut EXCEPT !.returned = TRUE]
    /\ bpc' = "done"
    /\ UNCHANGED bIn
    /\ UNCHANGED <<coreVars, pageVars, svcVars, conVars, bldVars>>

\* BatchWriteRequest.Go: one request with every operation, or an error
BatchWriteGo ==
    /\ bpc = "ready"
    /\ bIn.op = "write"
    /\ \E storeFails \in BOOLEAN :
         bOut' =
           IF Len(bIn.ops) = 0 THEN [bOut EXCEPT !.returned = TRUE]
           ELSE IF Len(bIn.ops) > MaxBatchWriteItems
                THEN [bOut EXCEPT !.err = "BatchTooLarge", !.returned = TRUE]
           ELSE IF bIn.bad \in 1..Len(bIn.ops)
                THEN [bOut EXCEPT !.err = "MissingAttribute", !.returned = TRUE]
           ELSE [bOut EXCEPT !.sent = << bIn.ops >>,
                             !.err = IF storeFails THEN "DynamoDBError" ELSE "",
                             !.returned = TRUE]
    /\ bpc' = "done"
    /\ UNCHANGED bIn
    /\ UNCHANGED <<coreVars, pageVars, svcVars, conVars, bldVars>>

BatNext == BatchGetGo \/ BatchGetChunk \/ BatchGetReturn \/ BatchWriteGo

SpecBatch == BatInit /\ [][BatNext]_vars

\* the per-request limit of the store for the operation
StoreLimit == IF bIn.op = "get" THEN MaxBatchGetItems ELSE MaxBatchWriteItems

\* every operation of the batch is acceptable and the store does not fail
BatchServed ==
    /\ bpc = "done"
    /\ bIn.bad \notin 1..Len(bIn.ops)
    /\ bOut.err # "DynamoDBError"

\* consecutive chunks within the limit that hold every operation once
Chunked ==
    /\ bOut.err = ""
    /\ \A k \in DOMAIN bOut.sent : Len(bOut.sent[k]) \in 1..StoreLimit
    /\ Flatten(bOut.sent) = bIn.ops

\* C24: a batch, also one larger than the store's per-request limit (100
\* keys for BatchGet, 25 operations for BatchWrite), is sent as consecutive
\* chunks no larger than the limit, every key or operation in exactly one
C24_BatchesChunked == BatchServed => Chunked

\* the BatchGet half
BatchGetChunked == (BatchServed /\ bIn.op = "get") => Chunked

----------------------------------------------------------------------------
(* electrodb/pagination.go: QueryChain.Pages, QueryChain.Page and          *)
(* PagesIterator.Next, over ExecuteQuery and a store that pages            *)

\* a nil *string
NilCursor == CursorString("nil", FALSE, JNull)

\* cursor == nil || *cursor == ""
NoCursor(cursor) == cursor = NilCursor \/ cursor = EmptyCursor

\* the pages the store holds at most; a query that reaches the last one gets
\* no LastEvaluatedKey
MaxStorePages == 3

MaxPagesOption == 2

MaxNextCalls == 5

\* QueryOptions of the chain: nil, or Limit, Order and Raw set
ChainOptions ==
    { [given |-> FALSE, Limit |-> 0, Order |-> "", Raw |-> FALSE],
      [given |-> TRUE,  Limit |-> 3, Order |-> "desc", Raw |-> TRUE] }

PagesInputs ==
    { [mode |-> m, MaxPages |-> mp, Limit |-> l, options |-> o] :
        m \in {"pages", "iterator"}, mp \in 0..MaxPagesOption,
        l \in {0, 5}, o \in ChainOptions }

\* maxPages as Pages and Page read it from the PagesOptions
maxPagesOf(in) == IF in.MaxPages > 0 THEN in.MaxPages ELSE 0

\* the QueryOptions of one page: the cursor, the Limit of the PagesOptions or
\* else of the chain, and the chain's Order and Raw
PageQueryOptions(in, cursor) ==
    [Cursor |-> cursor,
     Limit  |-> IF in.Limit > 0 THEN in.Limit
                ELSE IF in.options.given THEN in.options.Limit ELSE 0,
     Order  |-> IF in.options.given THEN in.options.Order ELSE "",
     Raw    |-> in.options.given /\ in.options.Raw]

\* the LastEvaluatedKey values the store answers with
PageKeys ==
    { NilKeyMap, KeyMap(FALSE, <<>>),
      KeyMap(FALSE, "pk" :> AvS(<<"a">>)),
      KeyMap(FALSE, ("pk" :> AvS(<<"a">>)) @@ ("sk" :> AvN(<<"2">>))),
      KeyMap(FALSE, "pk" :> AvB(<<104>>)) }

\* what ExecuteQuery makes of the store's answer: the items and the cursor,
\* nil when there is no LastEvaluatedKey or it encodes to ""
QueryResponse(data, lastKey) ==
    [Data   |-> data,
     LastEvaluatedKey |-> lastKey,
     Cursor |-> IF lastKey.isNil \/ encodeCursor(lastKey).cursor = EmptyCursor
                THEN NilCursor
                ELSE encodeCursor(lastKey).cursor,
     err    |-> ""]

QueryFailed(err) ==
    [Data |-> <<>>, LastEvaluatedKey |-> NilKeyMap, Cursor |-> NilCursor, err |-> err]

\* tempChain.Go() with the given options as the n-th query: the possible
\* outcomes; a cursor that does not decode is refused before the store is
\* asked, the store may fail, and it answers with one page
ExecuteQuery(opts, n) ==
    IF opts.Cursor # NilCursor /\ decodeCursor(opts.Cursor).err # NoError
    THEN { QueryFailed(CursorDecodingError) }
    ELSE { QueryFailed("DynamoDBError") }
         \cup { QueryResponse(data, lastKey) :
                  data \in { <<>>, << n >> },
                  lastKey \in IF n >= MaxStorePages THEN { NilKeyMap } ELSE PageKeys }

\* whether the store is asked at all
ReachesStore(opts) ==
    opts.Cursor = NilCursor \/ decodeCursor(opts.Cursor).err = NoError

\* the query as Go() was given it, and the request the store sees of it
SentQuery(opts) ==
    [options |-> opts,
     reached |-> ReachesStore(opts),
     ExclusiveStartKey |-> IF opts.Cursor = NilCursor THEN NilKeyMap
                           ELSE decodeCursor(opts.Cursor).key]

\* maxPages > 0 && pageCount >= maxPages, one comparison short
MaxPagesPassed(maxPages, pageCount) == maxPages > 0 /\ pageCount > maxPages

\* maxPages > 0 && pageCount >= maxPages
MaxPagesReached(maxPages, pageCount) == maxPages > 0 /\ pageCount >= maxPages

\* the cursor of the first page kept for every later one
FirstCursorKept(st, result) == IF st.pageCount = 0 THEN result.Cursor ELSE st.cursor

\* cursor = result.Cursor
FollowCursor(st, result) == result.Cursor

\* the error branch of Next with the done flag left unset
NextFailedOpen(st, err) ==
    [st EXCEPT !.err = err,
               !.last = [page |-> <<>>, hasPage |-> FALSE, hasMore |-> FALSE, err |-> err]]

\* the error branch of Next: pi.done = true; pi.err = err
NextFailed(st, err) ==
    [st EXCEPT !.done = TRUE, !.err = err,
               !.last = [page |-> <<>>, hasPage |-> FALSE, hasMore |-> FALSE, err |-> err]]

NoReturn == [page |-> <<>>, hasPage |-> FALSE, hasMore |-> FALSE, err |-> ""]

\* the locals of Pages or the fields of the PagesIterator, with what was sent
\* to the store (queries), what came back (pages) and what was handed to the
\* caller (allItems and result of Pages; last of Next)
NoPages ==
    [cursor |-> NilCursor, pageCount |-> 0, done |-> FALSE, err |-> "",
     allItems |-> <<>>, result |-> <<>>, queries |-> <<>>, pages |-> <<>>,
     last |-> NoReturn, calls |-> 0, finished |-> FALSE, finishErr |-> "",
     afterFinish |-> <<>>]

PageInit ==
    /\ gIn \in PagesInputs
    /\ gOut = NoPages
    /\ gpc = "ready"
    /\ CoreIdle
    /\ BatIdle
    /\ SvcIdle
    /\ ConIdle
    /\ BldIdle

\* the queries made after this turn
Queried(st, opts) == Append(st.queries, SentQuery(opts))

\* one turn of the loop of Pages whose query returned result
PagesTurned(st, opts, result, maxPages) ==
    IF result.err # ""
    THEN [st EXCEPT !.queries = Queried(st, opts), !.err = result.err,
                    !.result = <<>>, !.done = TRUE]
    ELSE [st EXCEPT
            !.queries   = Queried(st, opts),
            !.pages     = Append(@, result),
            !.allItems  = @ \o result.Data,
            !.cursor    = FollowCursor(st, result),
            !.pageCount = @ + 1,
            !.result    = st.allItems \o result.Data,
            !.done      = \/ NoCursor(FollowCursor(st, result))
                          \/ MaxPagesReached(maxPages, st.pageCount + 1)]

\* QueryChain.Pages: one turn of its loop, up to the break or the return
PagesTurn ==
    /\ gIn.mode = "pages"
    /\ gpc \in {"ready", "loop"}
    /\ \E result \in ExecuteQuery(PageQueryOptions(gIn, gOut.cursor),
                                  Len(gOut.queries) + 1) :
          gOut' = PagesTurned(gOut, PageQueryOptions(gIn, gOut.cursor), result,
                              maxPagesOf(gIn))
    /\ gpc' = IF gOut'.done THEN "returned" ELSE "loop"
    /\ UNCHANGED gIn
    /\ UNCHANGED <<coreVars, batVars, svcVars, conVars, bldVars>>

\* QueryChain.Page: the iterator
Page ==
    /\ gIn.mode = "iterator"
    /\ gpc = "ready"
    /\ gOut' = gOut
    /\ gpc' = "iterating"
    /\ UNCHANGED gIn
    /\ UNCHANGED <<coreVars, batVars, svcVars, conVars, bldVars>>

\* what a Next call after the iterator finished did: its return, and the
\* iterator's fields and the queries sent before and after it
Observed(before, after) ==
    [last |-> after.last,
     sameState |-> /\ after.pageCount = before.pageCount
                   /\ after.cursor = before.cursor
                   /\ after.queries = before.queries]

\* the bookkeeping of one Next call that took st to after
Called(st, after) ==
    [after EXCEPT
       !.calls = st.calls + 1,
       !.finished = TRUE \in {st.finished, ~after.last.hasMore, after.last.err # ""},
       !.finishErr = IF st.finished THEN st.finishErr ELSE after.last.err,
       !.afterFinish = IF st.finished THEN Append(st.afterFinish, Observed(st, after))
                       ELSE st.afterFinish]

\* Next past its two early returns, its query having returned result
NextQueried(st, opts, result) ==
    IF result.err # ""
    THEN [NextFailed(st, result.err) EXCEPT !.queries = Queried(st, opts)]
    ELSE [st EXCEPT
            !.queries   = Queried(st, opts),
            !.pages     = Append(@, result),
            !.cursor    = result.Cursor,
            !.pageCount = @ + 1,
            !.done      = NoCursor(result.Cursor),
            !.last      = [page |-> result.Data, hasPage |-> TRUE,
                           hasMore |-> ~NoCursor(result.Cursor), err |-> ""]]

\* PagesIterator.Next
Next ==
    /\ gpc = "iterating"
    /\ gOut.calls < MaxNextCalls
    /\ IF gOut.done
       THEN gOut' = Called(gOut, [gOut EXCEPT
                       !.last = [page |-> <<>>, hasPage |-> FALSE, hasMore |-> FALSE,
                                 err |-> gOut.err]])
       ELSE IF MaxPagesReached(maxPagesOf(gIn), gOut.pageCount)
       THEN gOut' = Called(gOut, [gOut EXCEPT !.done = TRUE, !.last = NoReturn])
       ELSE \E result \in ExecuteQuery(PageQueryOptions(gIn, gOut.cursor),
                                       Len(gOut.queries) + 1) :
              gOut' = Called(gOut, NextQueried(gOut, PageQueryOptions(gIn, gOut.cursor),
                                               result))
    /\ gpc' = "iterating"
    /\ UNCHANGED gIn
    /\ UNCHANGED <<coreVars, batVars, svcVars, conVars, bldVars>>

PageNext == PagesTurn \/ Page \/ Next

SpecPages == PageInit /\ [][PageNext]_vars

\* the items of the pages fetched, in page order
RECURSIVE Concatenated(_)
Concatenated(pages) ==
    IF pages = <<>> THEN <<>>
    ELSE Concatenated(SubSeq(pages, 1, Len(pages) - 1)) \o pages[Len(pages)].Data

PagesReturned == gIn.mode = "pages" /\ gpc = "returned"

\* C25: with MaxPages = m > 0 Pages and the iterator make at most m
\* queries and hand over the items of at most m pages, whatever the store
\* answers; with MaxPages = 0 they only stop at a page without cursor (or
\* at an error)
C25_MaxPagesBounds ==
    /\ gIn.MaxPages > 0 =>
          /\ Len(gOut.queries) <= gIn.MaxPages
          /\ Len(gOut.pages) <= gIn.MaxPages
          /\ PagesReturned /\ gOut.err = "" =>
                \E n \in 1..gIn.MaxPages :
                    gOut.result = Concatenated(SubSeq(gOut.pages, 1, n))
    /\ (gIn.MaxPages = 0 /\ gOut.done /\ gOut.err = "") =>
          /\ gOut.pages # <<>>
          /\ NoCursor(gOut.pages[Len(gOut.pages)].Cursor)

\* the limit cut a listing short: the last page still had a cursor
MaxPagesCutShort ==
    /\ gIn.MaxPages = MaxPagesOption
    /\ gOut.done
    /\ Len(gOut.queries) = MaxPagesOption
    /\ Len(gOut.pages) = MaxPagesOption
    /\ ~NoCursor(gOut.pages[MaxPagesOption].Cursor)

C30_FinishedIsAbsorbing ==
    \A k \in 1..Len(gOut.afterFinish) :
        /\ gOut.afterFinish[k].last =
              [page |-> <<>>, hasPage |-> FALSE, hasMore |-> FALSE,
               err |-> gOut.finishErr]
        /\ gOut.afterFinish[k].sameState

\* Next was called twice after a query of it failed
CalledAfterError ==
    /\ gOut.finishErr # ""
    /\ Len(gOut.afterFinish) >= 2

----------------------------------------------------------------------------
(* electrodb/query_test.go: Service.Join and buildCollections              *)

MaxJoins == 4

NilEntity == 0

\* an index of a schema: its Collection and Index, "" for nil
SvcIndex(collection, index) == [Collection |-> collection, Index |-> index]

\* the entities a caller holds: two named user, one with two indexes in the
\* same collection, one without a name
JoinEntities ==
    (1 :> [Entity |-> "user", Indexes |-> "primary" :> SvcIndex("", "")])
 @@ (2 :> [Entity |-> "user",
           Indexes |-> ("main" :> SvcIndex("", ""))
                    @@ ("gsi1" :> SvcIndex("shared", "gsi1pk-gsi1sk"))])
 @@ (3 :> [Entity |-> "task",
           Indexes |-> ("primary" :> SvcIndex("", ""))
                    @@ ("gsi1" :> SvcIndex("shared", "gsi1pk-gsi1sk"))
                    @@ ("gsi2" :> SvcIndex("shared", "gsi2pk-gsi2sk"))])
 @@ (4 :> [Entity |-> "", Indexes |-> "primary" :> SvcIndex("", "")])

\* entity.config before any Join: nil, empty, or with its own table
EntityConfigs ==
    (1 :> [isNil |-> TRUE, Client |-> "", Table |-> ""])
 @@ (2 :> [isNil |-> FALSE, Client |-> "", Table |-> "own"])
 @@ (3 :> [isNil |-> FALSE, Client |-> "own", Table |-> ""])
 @@ (4 :> [isNil |-> FALSE, Client |-> "", Table |-> ""])

\* the Service's client and table
ServiceConfigs == { [Client |-> "svc", Table |-> "svc"], [Client |-> "", Table |-> "svc"] }

\* collectionName := indexName, or *index.Collection
CollectionName(indexName, index) ==
    IF index.Collection # "" THEN index.Collection ELSE indexName

\* the duplicate check left out
RegisteredNever(entities, entityName) == FALSE

\* _, exists := s.entities[entityName]
Registered(entities, entityName) == entityName \in DOMAIN entities

\* the collections of the entity's indexes
CollectionsOf(entity) ==
    { CollectionName(i, entity.Indexes[i]) : i \in DOMAIN entity.Indexes }

\* buildCollections: the possible outcomes; a collection that does not exist
\* is created with the index of whichever of the entity's indexes of that
\* collection the map iteration visits first, and the entity's name is
\* appended where it is missing
buildCollections(collections, entity) ==
    { [c \in DOMAIN collections \cup CollectionsOf(entity) |->
         IF c \notin CollectionsOf(entity) THEN collections[c]
         ELSE IF c \in DOMAIN collections
              THEN [collections[c] EXCEPT
                      !.entities = IF \E k \in 1..Len(@) : @[k] = entity.Entity THEN @
                                   ELSE Append(@, entity.Entity)]
              ELSE [name |-> c, index |-> entity.Indexes[first[c]].Index,
                    entities |-> << entity.Entity >>]] :
      first \in { f \in [CollectionsOf(entity) \ DOMAIN collections -> DOMAIN entity.Indexes] :
                    \A c \in DOMAIN f : CollectionName(f[c], entity.Indexes[f[c]]) = c } }

\* the config of an entity that joins the service
JoinedConfig(config, service) ==
    [isNil  |-> FALSE,
     Client |-> IF config.Client = "" /\ service.Client # "" THEN service.Client
                ELSE config.Client,
     Table  |-> IF config.Table = "" /\ service.Table # "" THEN service.Table
                ELSE config.Table]

\* the error of Join, "" when the entity joins
JoinError(entities, e) ==
    IF e = NilEntity THEN "InvalidEntity"
    ELSE IF JoinEntities[e].Entity = "" THEN "InvalidEntity"
    ELSE IF Registered(entities, JoinEntities[e].Entity) THEN "DuplicateEntity"
    ELSE ""

\* NewService: empty maps; no Join made yet
SvcInit ==
    /\ jEntities = <<>>
    /\ jCollections = <<>>
    /\ jConfigs = EntityConfigs
    /\ \E service \in ServiceConfigs :
         jLast = [service |-> service, entity |-> NilEntity, err |-> "", joins |-> 0,
                  entities |-> <<>>, collections |-> <<>>, first |-> <<>>]
    /\ CoreIdle
    /\ BatIdle
    /\ PageIdle
    /\ ConIdle
    /\ BldIdle

\* Service.Join(entity); jLast keeps the argument, the error, the maps as
\* they were before the call and the entity first joined under each name
Join ==
    /\ jLast.joins < MaxJoins
    /\ \E e \in {NilEntity} \cup DOMAIN JoinEntities :
         /\ jLast' = [jLast EXCEPT
                        !.entity = e,
                        !.err = JoinError(jEntities, e),
                        !.joins = @ + 1,
                        !.entities = jEntities,
                        !.collections = jCollections,
                        !.first = IF JoinError(jEntities, e) = ""
                                     /\ JoinEntities[e].Entity \notin DOMAIN @
                                  THEN @ @@ (JoinEntities[e].Entity :> e)
                                  ELSE @]
         /\ IF JoinError(jEntities, e) # ""
            THEN UNCHANGED <<jEntities, jCollections, jConfigs>>
            ELSE /\ jConfigs' = [jConfigs EXCEPT ![e] = JoinedConfig(@, jLast.service)]
                 /\ jEntities' = (JoinEntities[e].Entity :> e) @@ jEntities
                 /\ jCollections' \in buildCollections(jCollections, JoinEntities[e])
    /\ UNCHANGED <<coreVars, batVars, pageVars, conVars, bldVars>>

SvcNext == Join

SpecService == SvcInit /\ [][SvcNext]_vars

\* the last Join was given nil or an entity whose name was registered
RefusedJoin ==
    /\ jLast.joins > 0
    /\ \/ jLast.entity = NilEntity
       \/ JoinEntities[jLast.entity].Entity \in DOMAIN jLast.entities

\* C27: a Join with nil or with a registered name fails, with DuplicateEntity
\* for the registered name, and leaves the entities and the collections as
\* they were; every name maps to the entity first joined under it
C27_RefusedJoinChangesNothing ==
    /\ RefusedJoin =>
         /\ jLast.err # ""
         /\ jLast.entity # NilEntity => jLast.err = "DuplicateEntity"
         /\ jEntities = jLast.entities
         /\ jCollections = jLast.collections
    /\ jEntities = jLast.first

\* a second entity named user was refused after the first one and task joined
DuplicateRefused ==
    /\ jLast.entity = 2
    /\ jLast.err = "DuplicateEntity"
    /\ jEntities = ("user" :> 1) @@ ("task" :> 3)
    /\ "shared" \in DOMAIN jCollections

----------------------------------------------------------------------------
(* unnamed/part_004: one ExpressionBuilder under any sequence of addName,  *)
(* addValue and AddExpression calls                                        *)

MaxCalls == 11

MaxExpressions == 2

\* what the calls so far returned and did: the placeholders returned, whether
\* one was returned twice, whether an entry of names or values was written
\* over, and whether a counter went down
NothingReturned ==
    [refs |-> {}, calls |-> 0, expressions |-> 0,
     repeated |-> FALSE, overwrote |-> FALSE, decreased |-> FALSE]

\* the record of one more call that returned ref and took the builder from eb
\* to after
Returned(seen, eb, ref, after) ==
    [seen EXCEPT
       !.refs = @ \cup {ref},
       !.calls = @ + 1,
       !.repeated = @ \/ ref \in seen.refs,
       !.overwrote = @ \/ ref \in DOMAIN eb.names \cup DOMAIN eb.values,
       !.decreased = TRUE \in { @, after.nameCount < eb.nameCount,
                                after.valueCount < eb.valueCount }]

BldInit ==
    /\ xEb = NewExpressionBuilder
    /\ xReturned = NothingReturned
    /\ CoreIdle
    /\ BatIdle
    /\ PageIdle
    /\ SvcIdle
    /\ ConIdle

CallAddName ==
    /\ xReturned.calls < MaxCalls
    /\ \E name \in {"a", "b"} :
         /\ xEb' = addName(xEb, name).eb
         /\ xReturned' = Returned(xReturned, xEb, addName(xEb, name).ref,
                                  addName(xEb, name).eb)
    /\ UNCHANGED <<coreVars, batVars, pageVars, svcVars, conVars>>

CallAddValue ==
    /\ xReturned.calls < MaxCalls
    /\ xEb' = addValue(xEb, IntVal(1)).eb
    /\ xReturned' = Returned(xReturned, xEb, addValue(xEb, IntVal(1)).ref,
                             addValue(xEb, IntVal(1)).eb)
    /\ UNCHANGED <<coreVars, batVars, pageVars, svcVars, conVars>>

CallAddExpression ==
    /\ xReturned.expressions < MaxExpressions
    /\ xEb' = AddExpression(xEb, <<"x">>)
    /\ xReturned' = [xReturned EXCEPT
                       !.expressions = @ + 1,
                       !.decreased = TRUE \in { @, xEb'.nameCount < xEb.nameCount,
                                                xEb'.valueCount < xEb.valueCount }]
    /\ UNCHANGED <<coreVars, batVars, pageVars, svcVars, conVars>>

BldNext == CallAddName \/ CallAddValue \/ CallAddExpression

SpecBuilder == BldInit /\ [][BldNext]_vars

\* C29: the counters of a builder never go down, no call returns a
\* placeholder the builder returned before, and no entry of names or values
\* is written over; the tables hold one entry per call
C29_PlaceholdersUnique ==
    /\ ~xReturned.decreased
    /\ ~xReturned.repeated
    /\ ~xReturned.overwrote
    /\ xReturned.refs = DOMAIN xEb.names \cup DOMAIN xEb.values
    /\ Cardinality(xReturned.refs) = xReturned.calls
    /\ xEb.nameCount + xEb.valueCount = xReturned.calls

\* names and values were added on both sides of an AddExpression call, the
\* names past #attr9
ManyPlaceholders ==
    /\ xEb.nameCount = MaxCalls - 1
    /\ xEb.valueCount = 1
    /\ xReturned.expressions = MaxExpressions
    /\ NameRef(MaxCalls - 2) \in DOMAIN xEb.names

----------------------------------------------------------------------------
(* Concurrent callers of the params builder of one entity: each caller     *)
(* runs one of BuildPutItemParams, BuildGetItemParams,                     *)
(* BuildUpdateItemParams and BuildQueryParams; the statements of           *)
(* BuildPutItemParams interleave with the other callers' steps. The        *)
(* callers hand over the same map as item and as keys.                     *)

Callers == {"c1", "c2"}

\* the schema of the entity: the attributes and indexes of the put builder
ConIndexes ==
    [primary |-> [IsGsi |-> FALSE, Index |-> "",
                  PK |-> FacetDefinition(FieldPk, <<AttrId>>),
                  HasSK |-> FALSE, SK |-> FacetDefinition(FieldSk, <<>>)],
     gsi1    |-> SecondaryIndex("gsi1", FacetDefinition(FieldGsi1Pk, <<AttrStatus>>),
                                TRUE, FacetDefinition(FieldGsi1Sk, <<AttrNum>>))]

ConSchemas ==
    { [Entity |-> SchemaEntity, Version |-> SchemaVersion,
       Attributes |-> SchemaAttributes(FALSE), Indexes |-> ConIndexes,
       Timestamps |-> ts] : ts \in BOOLEAN }

\* the maps the callers share: without the attribute that has a default,
\* without a required attribute, with a value the validator refuses
ConItems ==
    { (AttrId :> StrVal(<<"A","b">>)) @@ (AttrMail :> StrVal(<<"a","@","B">>)),
      (AttrId :> StrVal(<<"A","b">>)) @@ (AttrMail :> StrVal(<<"a","@","B">>))
         @@ (AttrStatus :> StatusOn) @@ (AttrNum :> IntVal(7)),
      (AttrId :> StrVal(<<"A","b">>)) @@ (AttrMail :> StrVal(<<"a","b">>))
         @@ (AttrStatus :> StrVal(<<"x">>)),
      (AttrMail :> StrVal(<<"a","@","B">>)) }

\* the update a caller builds: two SET entries and one ADD entry
ConUpdate(keys, timestamps) ==
    [keys |-> keys, timestamps |-> timestamps, readOnly |-> {}, response |-> "",
     set |-> ("a" :> PlainVal) @@ ("b" :> PlainVal), add |-> ("c" :> PlainVal),
     del |-> <<>>, rem |-> <<>>, app |-> <<>>, pre |-> <<>>, sub |-> <<>>,
     data |-> <<>>]

\* the calls: the operation and the arguments that are the caller's own
ConCalls ==
    { [op |-> "put", options |-> [Response |-> "ALL_OLD"]],
      [op |-> "get", options |-> [Response |-> ""]],
      [op |-> "update", options |-> [Response |-> ""]],
      [op |-> "query", options |-> [Response |-> ""]] }

\* BuildUpdateItemParams: the possible results, one for every iteration
\* order of the maps
UpdateResults(in) ==
    { BuildUpdateItemParams(in, ApplyUpdateTimestamps(in.set, in.timestamps),
                            [set |-> os, add |-> oa, del |-> <<>>, app |-> <<>>,
                             pre |-> <<>>, sub |-> <<>>, data |-> <<>>]) :
        os \in Orders(ApplyUpdateTimestamps(in.set, in.timestamps)),
        oa \in Orders(in.add) }

\* the query a caller builds on the secondary index
ConQuery(schema) ==
    BuildQueryParams(schema, "gsi1", << StatusOn >>, NoSortKeyCondition,
                     [given |-> TRUE, Limit |-> 5, Order |-> "desc"], NilBuilder)

\* the results of a call that runs alone on the map item
AloneResults(call, schema, item) ==
    CASE call.op = "put" ->
           { [err |-> r.err, params |-> r.params] :
               r \in BuildPutItemParams(item, schema, call.options) }
      [] call.op = "get" ->
           { GetResult(r) : r \in BuildGetItemParamsIn(schema, item) }
      [] call.op = "update" ->
           UpdateResults(ConUpdate(item, schema.Timestamps))
      [] call.op = "query" ->
           { ConQuery(schema) }

NoResult == [err |-> "", params |-> NilParams]

\* a caller before its call: no local map yet
NotCalled == [pc |-> "ready", work |-> <<>>, alias |-> TRUE, result |-> NoResult]

ConInit ==
    /\ nIn \in { [schema |-> s, item |-> i, calls |-> c] :
                   s \in ConSchemas, i \in ConItems, c \in [Callers -> ConCalls] }
    /\ nMem = [item |-> nIn.item]
    /\ nProc = [c \in Callers |-> NotCalled]
    /\ CoreIdle
    /\ BatIdle
    /\ PageIdle
    /\ SvcIdle
    /\ BldIdle

\* the maps a caller's next statement sees: the shared map as it is now, and
\* the caller's working map, which is the shared one while alias holds
Seen(proc) == Maps(nMem.item, IF proc.alias THEN nMem.item ELSE proc.work, proc.alias)

\* the caller c after a statement that left the maps st and goes on at pc
Stepped(c, pc, st) ==
    /\ nProc' = [nProc EXCEPT ![c] = [@ EXCEPT !.pc = pc, !.work = st.work,
                                               !.alias = st.alias]]
    /\ nMem' = [item |-> st.caller]

\* the caller c returns result
Finished(c, result) ==
    /\ nProc' = [nProc EXCEPT ![c] = [@ EXCEPT !.pc = "done", !.result = result]]
    /\ UNCHANGED nMem

\* BuildPutItemParams, statement by statement
PutRequired(c) ==
    /\ nIn.calls[c].op = "put"
    /\ nProc[c].pc = "ready"
    /\ IF validateRequiredAttributes(nMem.item, nIn.schema.Attributes) # ""
       THEN Finished(c, [err |-> "MissingAttribute", params |-> NilParams])
       ELSE Stepped(c, "defaults", Seen(nProc[c]))
    /\ UNCHANGED nIn
    /\ UNCHANGED <<coreVars, batVars, pageVars, svcVars, bldVars>>

PutDefaults(c) ==
    /\ nProc[c].pc = "defaults"
    /\ Stepped(c, "timestamps", applyDefaults(Seen(nProc[c]), nIn.schema.Attributes))
    /\ UNCHANGED nIn
    /\ UNCHANGED <<coreVars, batVars, pageVars, svcVars, bldVars>>

PutTimestamps(c) ==
    /\ nProc[c].pc = "timestamps"
    /\ Stepped(c, "padding", ApplyTimestamps(Seen(nProc[c]), nIn.schema.Timestamps))
    /\ UNCHANGED nIn
    /\ UNCHANGED <<coreVars, batVars, pageVars, svcVars, bldVars>>

PutPadding(c) ==
    /\ nProc[c].pc = "padding"
    /\ Stepped(c, "validate", ApplyPadding(Seen(nProc[c]), nIn.schema.Attributes))
    /\ UNCHANGED nIn
    /\ UNCHANGED <<coreVars, batVars, pageVars, svcVars, bldVars>>

PutValidate(c) ==
    /\ nProc[c].pc = "validate"
    /\ IF WriteErrors(Seen(nProc[c]).work, nIn.schema.Attributes, FALSE, {}) # {}
       THEN \E e \in WriteErrors(Seen(nProc[c]).work, nIn.schema.Attributes, FALSE, {}) :
               Finished(c, [err |-> e, params |-> NilParams])
       ELSE Stepped(c, "keys", Transformed(Seen(nProc[c]), nIn.schema.Attributes))
    /\ UNCHANGED nIn
    /\ UNCHANGED <<coreVars, batVars, pageVars, svcVars, bldVars>>

PutKeys(c) ==
    /\ nProc[c].pc = "keys"
    /\ Stepped(c, "marshal", addKeysToItem(Seen(nProc[c]), nIn.schema.Indexes))
    /\ UNCHANGED nIn
    /\ UNCHANGED <<coreVars, batVars, pageVars, svcVars, bldVars>>

PutMarshal(c) ==
    /\ nProc[c].pc = "marshal"
    /\ Finished(c, [err |-> "", params |-> PutParams(Seen(nProc[c]), nIn.calls[c].options)])
    /\ UNCHANGED nIn
    /\ UNCHANGED <<coreVars, batVars, pageVars, svcVars, bldVars>>

\* BuildGetItemParams with the shared map as keys
ConGet(c) ==
    /\ nIn.calls[c].op = "get"
    /\ nProc[c].pc = "ready"
    /\ \E r \in BuildGetItemParamsIn(nIn.schema, nMem.item) : Finished(c, GetResult(r))
    /\ UNCHANGED nIn
    /\ UNCHANGED <<coreVars, batVars, pageVars, svcVars, bldVars>>

\* BuildUpdateItemParams with the shared map as keys
ConUpdateCall(c) ==
    /\ nIn.calls[c].op = "update"
    /\ nProc[c].pc = "ready"
    /\ \E r \in UpdateResults(ConUpdate(nMem.item, nIn.schema.Timestamps)) : Finished(c, r)
    /\ UNCHANGED nIn
    /\ UNCHANGED <<coreVars, batVars, pageVars, svcVars, bldVars>>

\* BuildQueryParams
ConQueryCall(c) ==
    /\ nIn.calls[c].op = "query"
    /\ nProc[c].pc = "ready"
    /\ Finished(c, ConQuery(nIn.schema))
    /\ UNCHANGED nIn
    /\ UNCHANGED <<coreVars, batVars, pageVars, svcVars, bldVars>>

ConNext ==
    \E c \in Callers :
       \/ PutRequired(c)
       \/ PutDefaults(c)
       \/ PutTimestamps(c)
       \/ PutPadding(c)
       \/ PutValidate(c)
       \/ PutKeys(c)
       \/ PutMarshal(c)
       \/ ConGet(c)
       \/ ConUpdateCall(c)
       \/ ConQueryCall(c)

SpecConcurrent == ConInit /\ [][ConNext]_vars

\* C28: in every interleaving the shared map stays as the callers handed it
\* over, and every call that has returned returned a result it can return
\* when it runs alone
C28_ConcurrentCallsIndependent ==
    /\ nMem.item = nIn.item
    /\ \A c \in Callers :
         nProc[c].pc = "done" =>
            nProc[c].result \in AloneResults(nIn.calls[c], nIn.schema, nIn.item)

\* two puts are in flight at once, each between two of its statements and
\* each with the default stored in its own copy
PutsOverlapped ==
    /\ \A c \in Callers : nIn.calls[c].op = "put"
    /\ nProc["c1"].pc = "keys"
    /\ nProc["c2"].pc = "marshal"
    /\ AttrStatus \notin DOMAIN nIn.item
    /\ \A c \in Callers : AttrStatus \in DOMAIN nProc[c].work

====
